---- MODULE Spec2Model ----
(***************************************************************************)
(* Model of auth0-sso-login.js: the ensureLoggedIn / renewAuth login and   *)
(* renewal orchestration, the token expiry manager and the redirect store. *)
(* One action per event-loop task: a public call, a provider callback or a *)
(* timer callback, together with every promise continuation it triggers    *)
(* up to the next suspension on a provider call or a timer.                *)
(***************************************************************************)
EXTENDS Integers, Sequences, FiniteSets, TLC

(* ---------------------------------------------------------------- bounds *)
MaxInFlight == 2       \* ensureLoggedIn invocations in flight at the same time
MaxCalls == 3          \* ensureLoggedIn invocations in one behaviour (callers and timer)
MaxFaults == 1         \* retryable checkSession failures in one behaviour
MaxCleanups == 1       \* logout() / removeLogin() calls by the application
MaxClock == 3          \* the clock runs from 0 to MaxClock seconds
ExtraAttempts == 1     \* retryable failures offered beyond those one renewal takes

(* ------------------------------------------------------ program constants *)
MaxExpiresIn == 15     \* the expiry manager alone: expiresIn is 1..MaxExpiresIn seconds
MaxExpiryClock == 10   \* the expiry manager alone: the clock runs from 0 to MaxExpiryClock
MaxExpiredBy == 2      \* the expiry manager alone: expiresIn down to -MaxExpiredBy seconds
MaxRetries == 4        \* renewAuth: retries < 4
RetryDelayMs == 1000   \* renewAuth: setTimeout(..., 1000)
TokenLifetimeSec == 3  \* expiresIn of the credentials the provider issues

NULL == -1             \* JavaScript null / undefined for numbers and handles

(* a JavaScript number of milliseconds: numbers are kept in thirds of a     *)
(* millisecond, so that the division by 3 of scheduleTokenRefresh is exact  *)
Ms(n) == n * 3

CallIds == 1..MaxInFlight

(* JavaScript truthiness of a number-or-null *)
Truthy(x) == x # NULL /\ x # 0

(* ------------------------------------------------------------ value sets *)
NoAuth == [accessToken |-> NULL, idToken |-> NULL, expiresIn |-> NULL,
           exp |-> NULL, src |-> "none"]

NoError == [error |-> "none", authResultError |-> "undefined",
            errorCode |-> "undefined", shape |-> "none"]

(* an error object as the auth0 client hands it to a callback *)
ProviderError(code) == [error |-> code, authResultError |-> "undefined",
                        errorCode |-> "undefined", shape |-> "auth0"]

(* a credential issued at time t (ms) by provider operation src: both       *)
(* tokens are present (1), and the access token is a JWT whose exp claim is *)
(* issue time + lifetime                                                    *)
IssueCredential(src, t) ==
  [accessToken |-> 1, idToken |-> 1, expiresIn |-> TokenLifetimeSec,
   exp |-> (t \div Ms(1000)) + TokenLifetimeSec, src |-> src]

(* the configurations callers pass to ensureLoggedIn *)
Config(h, f, r, u, x) ==
  [enabledHostedLogin |-> h, forceTokenRefresh |-> f, requireValidSession |-> r,
   redirectUri |-> u, explicitConnection |-> x]

Configs ==
  { Config(h, f, r, "undefined", "undefined")
      : h \in BOOLEAN, f \in BOOLEAN, r \in BOOLEAN }
  \cup { Config(TRUE, FALSE, FALSE, "/deep", "conn") }

FewConfigs ==
  { Config(TRUE, FALSE, FALSE, "undefined", "undefined"),
    Config(FALSE, FALSE, FALSE, "undefined", "undefined"),
    Config(FALSE, TRUE, FALSE, "undefined", "undefined") }

(* a refresh function that renews without the hosted-login fallback *)
TimerConfigNoFallback ==
  [enabledHostedLogin |-> FALSE, forceTokenRefresh |-> TRUE,
   requireValidSession |-> FALSE, redirectUri |-> "undefined",
   explicitConnection |-> "undefined"]

(* the configuration the refresh timer passes: tokenRefreshed, line 381 *)
TimerConfig == [enabledHostedLogin |-> TRUE, forceTokenRefresh |-> TRUE,
                requireValidSession |-> FALSE, redirectUri |-> "undefined",
                explicitConnection |-> "undefined"]

(* the configurations given to the constructor, as far as they are read:   *)
(* the hooks configured and the default connection                         *)
ConstructorConfigs ==
  { [hooks |-> {}, explicitConnection |-> "undefined"],
    [hooks |-> {"profileRefreshed", "tokenRefreshed", "removeLogin", "logout", "log"},
     explicitConnection |-> "defaultConn"] }

(* configurations with one of the two hooks that logout() invokes *)
OneHookConfigs ==
  { [hooks |-> {"removeLogin"}, explicitConnection |-> "undefined"],
    [hooks |-> {"logout"}, explicitConnection |-> "undefined"] }

(* a configuration with the tokenRefreshed hook and no profileRefreshed hook *)
TokenHookConfigs ==
  { [hooks |-> {"tokenRefreshed"}, explicitConnection |-> "undefined"] }

LogoutOverrides == {"undefined", "/bye"}

(* window.location.href of the page the library runs in *)
windowLocationHref == "/app"

(* a promise as far as the chain reads it: pending on the call that will    *)
(* settle it, or settled                                                    *)
Fulfilled == [state |-> "fulfilled", call |-> 0, reason |-> NoError]
Rejected(e) == [state |-> "rejected", call |-> 0, reason |-> e]
PendingOn(c) == [state |-> "pending", call |-> c, reason |-> NoError]

(* an ensureLoggedIn invocation: where it is suspended (pc), its closure     *)
(* (cfg, retries, cred, pred: the promise it chained onto; of cfg only what *)
(* is read after the synchronous part is kept; entry records what the      *)
(* synchronous part found: no token, a token without remaining time, a      *)
(* valid token, a valid token with forceTokenRefresh), how it settled       *)
(* (via, result, err), and a record of what it did (lastErr, renewErr: the  *)
(* error of its last checkSession and of its renewAuth; the n* counters;    *)
(* the arguments it gave universalAuth and authorize; behind, predVia: it   *)
(* chained onto a pending promise, and how that one's call ended)           *)
IdleCall == [pc |-> "idle", origin |-> "none",
             cfg |-> [TimerConfig EXCEPT !.forceTokenRefresh = FALSE],
             retries |-> 0, retryDue |-> NULL, pred |-> Fulfilled,
             behind |-> FALSE, predVia |-> "none",
             entry |-> "noToken", cred |-> NoAuth,
             via |-> "none", result |-> "undefined", err |-> NoError,
             lastErr |-> NoError, renewErr |-> NoError,
             nLogged |-> 0, loggedRetry |-> NULL, loggedErr |-> NoError,
             nCheck |-> 0, nAuthorize |-> 0, nRemoveLogin |-> 0,
             universalAuthArgs |-> <<"none", "none">>,
             authorizeOptions |-> [redirectUri |-> "none", connection |-> "none",
                                   prompt |-> "none"],
             stale |-> FALSE]

Settled == {"resolved", "rejected"}

VARIABLES
  config,                    \* auth.config: hooks (the names configured), explicitConnection
  authResult,                \* auth.authResult
  tokenExpiresAt,            \* tokenExpiryManager.tokenExpiresAt
  tokenRefreshHandle,        \* tokenExpiryManager.tokenRefreshHandle
  sessionId,                 \* tokenExpiryManager.sessionId (TRUE: a uuid is set)
  timeouts,                  \* window timeouts pending for the refresh function
  renewAuthSequencePromise,  \* auth.renewAuthSequencePromise
  redirectStore,             \* localStorage[redirectUriKey]
  navigation,                \* the URL the step just taken gave updateWindow
  calls,                     \* the ensureLoggedIn invocations in flight
  settled,                   \* the invocations the step just taken settled, as they ended
  effects,                   \* what the step just taken did to its surroundings, in order
  budget,                    \* what the environment may still do in this behaviour
  clock                      \* Date.now() in seconds

vars == <<config, authResult, tokenExpiresAt, tokenRefreshHandle, sessionId, timeouts,
          renewAuthSequencePromise, redirectStore, navigation, calls, settled, effects,
          budget, clock>>

now == Ms(clock * 1000)

(* what a hook does when it is invoked: it returns, it throws, or it        *)
(* returns a promise that rejects                                           *)
HookOutcomes == {"ok", "throw", "reject"}

(* the outcomes where logout() and removeLogin() come in between *)
FewHookOutcomes == {"ok", "throw"}

(* the outcomes where three invocations run concurrently *)
ReturningHooks == {"ok"}

(* the outcomes with a hook that returns a promise settling later, if ever  *)
LaterHookOutcomes == HookOutcomes \cup {"pending"}

(* the mutable program state handed through the handlers, with the effects  *)
(* of the handler so far and what the tokenRefreshed hook will do in it     *)
World == [authResult |-> authResult, tokenExpiresAt |-> tokenExpiresAt,
          tokenRefreshHandle |-> tokenRefreshHandle, sessionId |-> sessionId,
          timeouts |-> timeouts, redirectStore |-> redirectStore,
          effects |-> <<>>, tokenHook |-> "ok"]

(* the handler does e: a store or a clearing of the credential, a call of   *)
(* the expiry manager, of the window, of a hook or of the logger            *)
Did(w, e) == [w EXCEPT !.effects = Append(@, e)]

(* a hook is invoked if it is configured *)
InvokeHook(w, name) ==
  IF name \in config.hooks THEN Did(w, "hook:" \o name) ELSE w

(* logger.log of an error caught on the way from a credential to the       *)
(* tokenRefreshed hook, named by its errorCode                              *)
Log(w, errorCode) == Did(w, "log:" \o errorCode)

(* a catch that swallows the error without logging it *)
CaughtSilently(w, failed) == w

(* lines 478-480 and 579-581: the catch around refreshProfile and           *)
(* tokenRefreshed logs what failed before it                               *)
CaughtAndLogged(w, failed) == IF failed THEN Log(w, "TokenRefreshFailed") ELSE w

Commit(w) ==
  /\ authResult' = w.authResult
  /\ tokenExpiresAt' = w.tokenExpiresAt
  /\ tokenRefreshHandle' = w.tokenRefreshHandle
  /\ sessionId' = w.sessionId
  /\ timeouts' = w.timeouts
  /\ redirectStore' = w.redirectStore
  /\ effects' = w.effects

(* ----------------------------------------------------- window interaction *)
(* window.setTimeout returns a handle no pending timeout has *)
FreshHandle(w) ==
  CHOOSE h \in 1..(Cardinality(w.timeouts) + 1) : \A x \in w.timeouts : x.handle # h

clearTimeout(w, h) ==
  Did([w EXCEPT !.timeouts = {x \in w.timeouts : x.handle # h}], "clearTimeout")

(* ------------------------------------------------- token expiry manager *)
getRemainingMillisToTokenExpiry(w) ==
  IF Truthy(w.tokenExpiresAt) THEN w.tokenExpiresAt - now ELSE 0

(* a scheduleTokenRefresh that rounds the delay down to whole milliseconds *)
scheduleTokenRefreshFlooredDelay(w, ar) ==
  LET expiresInMs == Ms(ar.expiresIn * 1000)
      remainingMs == (expiresInMs \div 3) * 2
      w1 == [w EXCEPT !.tokenExpiresAt = remainingMs + now]
      w2 == IF Truthy(w1.tokenRefreshHandle)
            THEN clearTimeout(w1, w1.tokenRefreshHandle) ELSE w1
      h  == FreshHandle(w2)
  IN  Did([w2 EXCEPT !.tokenRefreshHandle = h,
                     !.timeouts = @ \cup {[handle |-> h,
                                           due |-> now + Ms(remainingMs \div Ms(1))]}],
          "setTimeout")

(* a scheduleTokenRefresh that records the end of the whole lifetime *)
scheduleTokenRefreshFullLifetime(w, ar) ==
  LET expiresInMs == Ms(ar.expiresIn * 1000)
      remainingMs == (expiresInMs \div 3) * 2
      w1 == [w EXCEPT !.tokenExpiresAt = expiresInMs + now]
      w2 == IF Truthy(w1.tokenRefreshHandle)
            THEN clearTimeout(w1, w1.tokenRefreshHandle) ELSE w1
      h  == FreshHandle(w2)
  IN  Did([w2 EXCEPT !.tokenRefreshHandle = h,
                     !.timeouts = @ \cup {[handle |-> h, due |-> now + remainingMs]}],
          "setTimeout")

(* a scheduleTokenRefresh that arms the timer at a third of the lifetime *)
scheduleTokenRefreshAtOneThird(w, ar) ==
  LET expiresInMs == Ms(ar.expiresIn * 1000)
      remainingMs == (expiresInMs \div 3) * 2
      w1 == [w EXCEPT !.tokenExpiresAt = remainingMs + now]
      w2 == IF Truthy(w1.tokenRefreshHandle)
            THEN clearTimeout(w1, w1.tokenRefreshHandle) ELSE w1
      h  == FreshHandle(w2)
  IN  Did([w2 EXCEPT !.tokenRefreshHandle = h,
                     !.timeouts = @ \cup {[handle |-> h,
                                           due |-> now + (expiresInMs \div 3)]}],
          "setTimeout")

(* a scheduleTokenRefresh that does not clear the timeout it had armed *)
scheduleTokenRefreshWithoutClear(w, ar) ==
  LET expiresInMs == Ms(ar.expiresIn * 1000)
      remainingMs == (expiresInMs \div 3) * 2
      w1 == [w EXCEPT !.tokenExpiresAt = remainingMs + now]
      h  == FreshHandle(w1)
  IN  Did([w1 EXCEPT !.tokenRefreshHandle = h,
                     !.timeouts = @ \cup {[handle |-> h, due |-> now + remainingMs]}],
          "setTimeout")

(* a scheduleTokenRefresh that gives setTimeout no negative delay *)
scheduleTokenRefreshClamped(w, ar) ==
  LET expiresInMs == Ms(ar.expiresIn * 1000)
      remainingMs == (expiresInMs \div 3) * 2
      w1 == [w EXCEPT !.tokenExpiresAt = remainingMs + now]
      w2 == IF Truthy(w1.tokenRefreshHandle)
            THEN clearTimeout(w1, w1.tokenRefreshHandle) ELSE w1
      h  == FreshHandle(w2)
  IN  Did([w2 EXCEPT !.tokenRefreshHandle = h,
                     !.timeouts = @ \cup {[handle |-> h,
                          due |-> now + (IF remainingMs < 0 THEN 0 ELSE remainingMs)]}],
          "setTimeout")

(* a scheduleTokenRefresh that records the expiry and arms no timer *)
scheduleTokenRefreshRecordOnly(w, ar) ==
  LET expiresInMs == Ms(ar.expiresIn * 1000)
      remainingMs == (expiresInMs \div 3) * 2
      w1 == [w EXCEPT !.tokenExpiresAt = remainingMs + now]
  IN  IF Truthy(w1.tokenRefreshHandle)
      THEN clearTimeout(w1, w1.tokenRefreshHandle) ELSE w1

scheduleTokenRefresh(w, ar) ==
  LET expiresInMs == Ms(ar.expiresIn * 1000)
      remainingMs == (expiresInMs \div 3) * 2
      w1 == [w EXCEPT !.tokenExpiresAt = remainingMs + now]
      w2 == IF Truthy(w1.tokenRefreshHandle)
            THEN clearTimeout(w1, w1.tokenRefreshHandle) ELSE w1
      h  == FreshHandle(w2)
  IN  Did([w2 EXCEPT !.tokenRefreshHandle = h,
                     !.timeouts = @ \cup {[handle |-> h, due |-> now + remainingMs]}],
          "setTimeout")

(* a cancelTokenRefresh that clears the timeout and keeps its handle *)
cancelTokenRefreshKeepsHandle(w) ==
  LET w1 == Did([w EXCEPT !.sessionId = FALSE, !.tokenExpiresAt = NULL],
                "cancelTokenRefresh")
  IN  IF Truthy(w1.tokenRefreshHandle)
      THEN clearTimeout(w1, w1.tokenRefreshHandle)
      ELSE w1

(* a cancelTokenRefresh that keeps the recorded expiry *)
cancelTokenRefreshKeepsExpiry(w) ==
  LET w1 == Did([w EXCEPT !.sessionId = FALSE], "cancelTokenRefresh")
  IN  IF Truthy(w1.tokenRefreshHandle)
      THEN [clearTimeout(w1, w1.tokenRefreshHandle) EXCEPT !.tokenRefreshHandle = NULL]
      ELSE w1

(* a cancelTokenRefresh that keeps the session *)
cancelTokenRefreshKeepsSession(w) ==
  LET w1 == Did([w EXCEPT !.tokenExpiresAt = NULL], "cancelTokenRefresh")
  IN  IF Truthy(w1.tokenRefreshHandle)
      THEN [clearTimeout(w1, w1.tokenRefreshHandle) EXCEPT !.tokenRefreshHandle = NULL]
      ELSE w1

cancelTokenRefresh(w) ==
  LET w1 == Did([w EXCEPT !.sessionId = FALSE, !.tokenExpiresAt = NULL],
                "cancelTokenRefresh")
  IN  IF Truthy(w1.tokenRefreshHandle)
      THEN [clearTimeout(w1, w1.tokenRefreshHandle) EXCEPT !.tokenRefreshHandle = NULL]
      ELSE w1

createSession(w) == [w EXCEPT !.sessionId = TRUE]

authorizationSessionExists(w) == w.sessionId

(* ------------------------------------------------------ redirect handler *)
setRedirect(w, uri) == [w EXCEPT !.redirectStore = uri]

attemptRedirectValue(w) ==
  IF w.redirectStore # "undefined" THEN w.redirectStore ELSE "null"

(* an attemptRedirect that leaves the key in the storage *)
attemptRedirectKeepsKey(w) == w

attemptRedirect(w) == [w EXCEPT !.redirectStore = "undefined"]

(* ------------------------------------------------------------------ auth *)
(* a getIdToken that also asks the expiry manager for time left *)
getIdTokenValueWithRemaining(w) ==
  IF /\ Truthy(w.authResult.accessToken) /\ w.authResult.exp > (now \div Ms(1000))
     /\ getRemainingMillisToTokenExpiry(w) > 0
  THEN w.authResult.accessToken ELSE NULL

(* getIdToken: the value returned, and the state it leaves *)
getIdTokenValue(w) ==
  IF Truthy(w.authResult.accessToken) /\ w.authResult.exp > (now \div Ms(1000))
  THEN w.authResult.accessToken ELSE NULL

getIdToken(w) == IF getIdTokenValue(w) # NULL THEN createSession(w) ELSE w

(* lines 474 and 576, 379: the credential is stored *)
setAuthResult(w, ar) == Did([w EXCEPT !.authResult = ar], "store")

(* lines 395 and 410: the credential is cleared *)
clearAuthResult(w) == Did([w EXCEPT !.authResult = NoAuth], "clear")

(* a tokenRefreshed that calls the hook before it arms the timer *)
tokenRefreshedHookFirst(w, ar) ==
  scheduleTokenRefresh(InvokeHook(setAuthResult(w, ar), "tokenRefreshed"), ar)

(* a tokenRefreshed that schedules the refresh and stores no credential *)
tokenRefreshedWithoutStore(w, ar) ==
  InvokeHook(scheduleTokenRefresh(w, ar), "tokenRefreshed")

(* tokenRefreshed, lines 378-387 *)
tokenRefreshed(w, ar) ==
  InvokeHook(scheduleTokenRefresh(setAuthResult(w, ar), ar), "tokenRefreshed")

(* the tokenRefreshed hook was invoked and threw or rejected *)
TokenHookFailed(w) == "tokenRefreshed" \in config.hooks /\ w.tokenHook # "ok"

(* lines 384, 477 and 578: the tokenRefreshed hook was invoked and returned *)
(* a promise that has not settled, which the caller of tokenRefreshed waits *)
(* for                                                                      *)
TokenHookPending(w) == "tokenRefreshed" \in config.hooks /\ w.tokenHook = "pending"

(* removeLogin that forgets cancelTokenRefresh *)
removeLoginKeepsSchedule(w) == [w EXCEPT !.authResult = NoAuth]

removeLogin(w) == InvokeHook(clearAuthResult(cancelTokenRefresh(w)), "removeLogin")

(* a logout that invokes the logout hook before the removeLogin hook *)
logoutHooksSwapped(w) ==
  Did(InvokeHook(InvokeHook(clearAuthResult(cancelTokenRefresh(w)), "logout"),
                 "removeLogin"),
      "updateWindow")

(* logout, lines 408-422 *)
logout(w) ==
  Did(InvokeHook(InvokeHook(clearAuthResult(cancelTokenRefresh(w)), "removeLogin"),
                 "logout"),
      "updateWindow")

(* line 420: the provider's logout URL *)
LogoutUrl(redirectUriOverride) ==
  "/v2/logout?returnTo=" \o
    (IF redirectUriOverride # "undefined" THEN redirectUriOverride
     ELSE windowLocationHref)

(* the two ways an ensureLoggedIn promise settles *)
Resolve(k, via, result) ==
  [k EXCEPT !.pc = "resolved", !.via = via, !.result = result, !.cred = NoAuth]

Reject(k, e) == [k EXCEPT !.pc = "rejected", !.err = e, !.cred = NoAuth]

(* renewAuth, lines 577-584: what follows once refreshProfile has settled;  *)
(* profileOk is FALSE when the profileRefreshed hook threw, which skips     *)
(* tokenRefreshed. The chain then runs clearOldNonces and fulfils.          *)
RenewSyncDone(w, k, profileOk) ==
  IF profileOk /\ TokenHookPending(w)
  THEN [w |-> tokenRefreshed(w, k.cred), k |-> [k EXCEPT !.pc = "renewTokenHook"]]
  ELSE [w |-> IF profileOk
              THEN CaughtAndLogged(tokenRefreshed(w, k.cred), TokenHookFailed(w))
              ELSE CaughtAndLogged(w, TRUE),
        k |-> Resolve(k, "renew", "undefined")]

(* ensureLoggedIn, lines 475-483: the same after a hash parse; it passes    *)
(* this.authResult as it is by then, and a null makes scheduleTokenRefresh  *)
(* throw, which is caught and logged                                        *)
HashSyncDone(w, k, profileOk) ==
  LET w1 == IF profileOk /\ w.authResult # NoAuth
            THEN CaughtAndLogged(tokenRefreshed(w, w.authResult), TokenHookFailed(w))
            ELSE CaughtAndLogged(w, TRUE)
  IN  IF profileOk /\ w.authResult # NoAuth /\ TokenHookPending(w)
      THEN [w |-> tokenRefreshed(w, w.authResult),
            k |-> [k EXCEPT !.pc = "hashTokenHook"]]
      ELSE [w |-> attemptRedirect(w1),
            k |-> Resolve(k, "hash", attemptRedirectValue(w1))]

SyncDone(w, k, profileOk) ==
  IF k.pc = "hashProfile" \/ k.pc = "parseHash"
  THEN HashSyncDone(w, k, profileOk)
  ELSE RenewSyncDone(w, k, profileOk)

(* refreshProfile / getProfile up to the getUser call: without the hook it  *)
(* resolves at once; getProfile throws when getIdToken() gives no token     *)
refreshProfile(w, k, waitPc) ==
  IF "profileRefreshed" \notin config.hooks
  THEN SyncDone(w, k, TRUE)
  ELSE IF getIdTokenValue(w) = NULL
       THEN SyncDone(Log(getIdToken(w), "ProfileError"), k, TRUE)
       ELSE [w |-> getIdToken(w), k |-> [k EXCEPT !.pc = waitPc]]

(* ------------------------------------------------------------- renewAuth *)
(* a fatalErrors table that lacks consent_required *)
IsFatalLoginOnly(e) == e.error = "login_required"

(* lines 591-597: errors after which no retry is made *)
IsFatal(e) == e.error \in {"consent_required", "login_required"}

(* the retry condition with retries <= 4 for retries < 4 *)
ShouldRetryOffByOne(retries, e) ==
  retries <= MaxRetries /\ e.authResultError = "undefined"

(* the retry condition without the test of authResultError *)
ShouldRetryAnyError(retries, e) == retries < MaxRetries

(* line 599: the retry condition *)
ShouldRetry(retries, e) == retries < MaxRetries /\ e.authResultError = "undefined"

(* line 586: the rejection built when the result lacks a token *)
NoTokenAvailable(authResultErrorField) ==
  [error |-> "no_token_available", authResultError |-> authResultErrorField,
   errorCode |-> "undefined", shape |-> "renew"]

(* lines 570-571: renewAuth(retries) issues one checkSession call *)
renewAuth(k, retries) ==
  [k EXCEPT !.pc = "checkSession", !.retries = retries, !.retryDue = NULL,
            !.nCheck = @ + 1]

(* universalAuth that does not save the return location *)
universalAuthNoSetRedirect(w, k, redirectUri, explicitConnection) ==
  [w |-> w,
   k |-> [k EXCEPT !.pc = "authorize", !.nAuthorize = @ + 1,
                   !.universalAuthArgs = <<redirectUri, explicitConnection>>,
                   !.authorizeOptions =
                      [redirectUri |-> "applicationRoot",
                       connection |-> IF explicitConnection # "undefined"
                                      THEN explicitConnection
                                      ELSE config.explicitConnection,
                       prompt |-> IF explicitConnection # "undefined"
                                     \/ config.explicitConnection # "undefined"
                                  THEN "select_account" ELSE "none"]]]

(* universalAuth, lines 533-553: save the return location, call authorize *)
universalAuth(w, k, redirectUri, explicitConnection) ==
  [w |-> setRedirect(w, IF redirectUri # "undefined"
                        THEN redirectUri ELSE windowLocationHref),
   k |-> [k EXCEPT !.pc = "authorize", !.nAuthorize = @ + 1,
                   !.universalAuthArgs = <<redirectUri, explicitConnection>>,
                   !.authorizeOptions =
                      [redirectUri |-> "applicationRoot",
                       connection |-> IF explicitConnection # "undefined"
                                      THEN explicitConnection
                                      ELSE config.explicitConnection,
                       prompt |-> IF explicitConnection # "undefined"
                                     \/ config.explicitConnection # "undefined"
                                  THEN "select_account" ELSE "none"]]]

(* a last catch that rethrows without calling removeLogin *)
FailWithoutRemoveLogin(w, k, e) == [w |-> w, k |-> Reject(k, e)]

(* ensureLoggedIn, lines 500-503: the last catch of the chain *)
FailAndRemoveLogin(w, k, e) ==
  [w |-> removeLogin(w),
   k |-> [Reject(k, e) EXCEPT !.nRemoveLogin = @ + 1]]

(* ensureLoggedIn, lines 488-496: what the chain does with a rejection e of *)
(* renewAuth (or of the promise chained onto)                               *)
RenewFailed(w, k, e) ==
  LET k1 == [k EXCEPT !.renewErr = e]
  IN  IF ~k1.cfg.enabledHostedLogin
      THEN FailAndRemoveLogin(w, k1, e)
      ELSE universalAuth(w, k1, k1.cfg.redirectUri, k1.cfg.explicitConnection)

(* line 590: logger.log with errorCode IdTokenUpdateFailed, retry: retries  *)
(* and the error of the attempt                                             *)
LogRenewFailure(w, k, e) ==
  [w |-> Log(w, "IdTokenUpdateFailed"),
   k |-> [k EXCEPT !.nLogged = @ + 1, !.loggedRetry = k.retries, !.loggedErr = e]]

(* a catch that gives up at the first failed attempt *)
RenewAuthCatchNoRetry(w, k, e) == RenewFailed(w, k, e)

(* a catch of renewAuth that logs the failure it gives up on only *)
RenewAuthCatchLogsLast(w, k, e) ==
  LET l == LogRenewFailure(w, k, e)
  IN  IF IsFatal(e) THEN RenewFailed(l.w, l.k, e)
      ELSE IF ShouldRetry(k.retries, e)
           THEN [w |-> w, k |-> [k EXCEPT !.pc = "retryWait",
                                          !.retryDue = now + Ms(RetryDelayMs)]]
           ELSE RenewFailed(l.w, l.k, e)

(* lines 589-604: the catch of renewAuth logs the failure of the attempt,   *)
(* then rethrows a fatal error, retries after the delay, or rethrows        *)
RenewAuthCatch(w, k, e) ==
  LET l == LogRenewFailure(w, k, e)
  IN  IF IsFatal(e) THEN RenewFailed(l.w, l.k, e)
      ELSE IF ShouldRetry(k.retries, e)
           THEN [w |-> l.w, k |-> [l.k EXCEPT !.pc = "retryWait",
                                              !.retryDue = now + Ms(RetryDelayMs)]]
           ELSE RenewFailed(l.w, l.k, e)

(* -------------------------------------------------------- ensureLoggedIn *)
(* the short cut with the negation of forceTokenRefresh dropped *)
FastPathWhenForced(w, cfg) ==
  /\ cfg.forceTokenRefresh
  /\ getIdTokenValue(w) # NULL
  /\ getRemainingMillisToTokenExpiry(getIdToken(w)) > 0

(* the short cut without the test of forceTokenRefresh *)
FastPathIgnoresForce(w, cfg) ==
  /\ getIdTokenValue(w) # NULL
  /\ getRemainingMillisToTokenExpiry(getIdToken(w)) > 0

(* lines 443-446: the valid-token short cut *)
FastPath(w, cfg) ==
  /\ ~cfg.forceTokenRefresh
  /\ getIdTokenValue(w) # NULL
  /\ getRemainingMillisToTokenExpiry(getIdToken(w)) > 0

(* a no-session return that does not ask whether a session exists *)
NoSessionPathIgnoresSession(w, cfg) == cfg.requireValidSession

(* lines 450-452 *)
NoSessionPath(w, cfg) ==
  cfg.requireValidSession /\ ~authorizationSessionExists(getIdToken(w))

(* lines 441-457: the synchronous part, up to the parseHash call *)
ensureLoggedIn(w, k, cfg, origin) ==
  LET k1 == [k EXCEPT !.cfg = [cfg EXCEPT !.forceTokenRefresh = FALSE,
                                          !.requireValidSession = FALSE],
                      !.origin = origin,
                      !.entry =
                         IF getIdTokenValue(w) = NULL THEN "noToken"
                         ELSE IF getRemainingMillisToTokenExpiry(w) <= 0 THEN "expiring"
                         ELSE IF cfg.forceTokenRefresh THEN "forcedValid"
                         ELSE "valid"]
  IN  [w |-> getIdToken(w),
       k |-> IF FastPath(w, cfg) THEN Resolve(k1, "fast", "undefined")
             ELSE IF NoSessionPath(w, cfg) THEN Resolve(k1, "noSession", "undefined")
             ELSE [k1 EXCEPT !.pc = "parseHash"]]

(* chaining onto a fresh resolved promise instead of the retained one *)
ChainOntoResolved(seq) == Fulfilled

(* line 486: the promise a new call chains its renewal onto *)
ChainOnto(seq) == seq

(* lines 486-487: chain the renewal onto the retained promise *)
ChainRenewal(k) ==
  [k EXCEPT !.pc = "queued", !.pred = ChainOnto(renewAuthSequencePromise),
            !.behind = (ChainOnto(renewAuthSequencePromise).state = "pending")]

(* a continuation that takes over the outcome of the sequence it waited    *)
(* for instead of renewing itself                                           *)
ThenRenewShared(w, k, p) ==
  IF p.state = "fulfilled"
  THEN IF k.behind
       THEN [w |-> w, k |-> Resolve(k, "renew", "undefined")]
       ELSE [w |-> w, k |-> renewAuth(k, 0)]
  ELSE RenewFailed(w, k, p.reason)

(* a continuation of the sequence promise that never runs renewAuth *)
ThenRenewNever(w, k, p) == [w |-> w, k |-> k]

(* a continuation that takes the failure of the invocation it waited for   *)
(* as the failure of its own renewal                                        *)
ThenRenewInheritsFailure(w, k, p) ==
  IF p.state = "fulfilled" /\ k.predVia # "rejected"
  THEN [w |-> w, k |-> renewAuth(k, 0)]
  ELSE RenewFailed(w, k, ProviderError("login_required"))

(* lines 487-496: the promise p chained onto has settled: a fulfilled one   *)
(* runs renewAuth, a rejected one goes to the catch with its reason         *)
ThenRenew(w, k, p) ==
  IF p.state = "fulfilled"
  THEN [w |-> w, k |-> renewAuth(k, 0)]
  ELSE RenewFailed(w, k, p.reason)

(* the retained promise without the catch: it settles as the call did *)
UncaughtChain(k) == IF k.pc = "rejected" THEN Rejected(k.err) ELSE Fulfilled

(* line 505: authPromise.catch(() => {}) once the call has settled as k *)
CaughtChain(k) == Fulfilled

(* the lowest free place for a new invocation *)
NextCall(c) ==
  /\ calls[c].pc = "idle"
  /\ \A d \in CallIds : d < c => calls[d].pc # "idle"

(* logout / removeLogin while a renewal attempt is in flight marks it      *)
(* stale, until the next ensureLoggedIn call is made                        *)
MarkStale(cs) ==
  [c \in CallIds |->
     IF cs[c].pc \in {"checkSession", "retryWait"}
     THEN [cs[c] EXCEPT !.stale = TRUE] ELSE cs[c]]

ClearStale(cs) == [c \in CallIds |-> [cs[c] EXCEPT !.stale = FALSE]]

(* how a settled invocation ended *)
EndedVia(k) == IF k.pc = "resolved" THEN k.via ELSE "rejected"

(* a settled invocation as settled shows it *)
Ended(k) == [k EXCEPT !.pred = Fulfilled, !.retryDue = NULL]

(* the promise of call c has settled as p (by a call that ended via v): the *)
(* continuation chained onto it runs in the same task, and so on down the   *)
(* chain for as long as a continuation settles its own call at once         *)
RECURSIVE Wake(_, _, _, _, _, _, _)
Wake(w, cs, seq, done, c, p, v) ==
  LET seq1 == IF seq = PendingOn(c) THEN p ELSE seq
      followers == {d \in CallIds : cs[d].pc = "queued" /\ cs[d].pred = PendingOn(c)}
  IN  IF followers = {}
      THEN [w |-> w, cs |-> cs, seq |-> seq1, done |-> done]
      ELSE LET d == CHOOSE x \in followers : TRUE
               r == ThenRenew(w, [cs[d] EXCEPT !.pred = p, !.predVia = v], p)
           IN  IF r.k.pc \in Settled
               THEN Wake(r.w, [cs EXCEPT ![d] = IdleCall], seq1,
                         Append(done, Ended(r.k)), d, CaughtChain(r.k), EndedVia(r.k))
               ELSE [w |-> r.w, cs |-> [cs EXCEPT ![d] = r.k], seq |-> seq1,
                     done |-> done]

(* a handler of call c ends with the world as r.w and the call as r.k: a    *)
(* settled call leaves calls, is shown in settled, and the continuations    *)
(* waiting for its promise run                                              *)
Finish(cs, seq, c, r) ==
  IF r.k.pc \in Settled
  THEN LET o == Wake(r.w, [cs EXCEPT ![c] = IdleCall], seq, <<Ended(r.k)>>, c,
                     CaughtChain(r.k), EndedVia(r.k))
       IN  /\ Commit(o.w)
           /\ calls' = o.cs
           /\ renewAuthSequencePromise' = o.seq
           /\ settled' = o.done
  ELSE /\ Commit(r.w)
       /\ calls' = [cs EXCEPT ![c] = r.k]
       /\ renewAuthSequencePromise' = seq
       /\ settled' = <<>>

(* ---------------------------------------------------------------- actions *)
Spend(what) == budget' = [budget EXCEPT ![what] = @ - 1]

Start(constructorConfigs) ==
  /\ config \in constructorConfigs
  /\ authResult = NoAuth
  /\ tokenExpiresAt = NULL
  /\ tokenRefreshHandle = NULL
  /\ sessionId = FALSE
  /\ timeouts = {}
  /\ renewAuthSequencePromise = Fulfilled
  /\ redirectStore = "undefined"
  /\ navigation = "none"
  /\ calls = [c \in CallIds |-> IdleCall]
  /\ settled = <<>>
  /\ effects = <<>>
  /\ clock = 0

Budget(nCalls, nFaults, nCleanups, nClock, cfgs, hookOutcomes) ==
  [calls |-> nCalls, faults |-> nFaults, cleanups |-> nCleanups, clock |-> nClock,
   configs |-> cfgs, hooks |-> hookOutcomes]

(* concurrent invocations, callers and the refresh timer *)
Init == Start(ConstructorConfigs) /\ budget = Budget(MaxCalls, MaxFaults, 0, MaxClock, FewConfigs,
                                 ReturningHooks)

(* invocations with logout() and removeLogin() in between *)
InitCleanup == Start(ConstructorConfigs \cup OneHookConfigs) /\ budget = Budget(MaxInFlight, MaxFaults, MaxCleanups, MaxClock,
                                        FewConfigs, FewHookOutcomes)

(* one invocation, with every configuration and as many failures as it takes *)
InitRenew == Start(ConstructorConfigs) /\ budget = Budget(1, MaxRetries + 1 + ExtraAttempts, 0,
                                      MaxRetries + 1, Configs, HookOutcomes)

(* an invocation after another, with every configuration *)
InitToken == Start(ConstructorConfigs \cup TokenHookConfigs) /\ budget = Budget(MaxInFlight, MaxFaults, 0, MaxClock, Configs,
                                      HookOutcomes)

(* invocations one behind the other, with hooks whose promises settle later *)
InitLive == Start(ConstructorConfigs) /\ budget = Budget(MaxInFlight, MaxFaults, 0, 0, FewConfigs,
                                     LaterHookOutcomes)

(* the expiry manager alone, driven through its three methods *)
InitExpiry == Start(ConstructorConfigs) /\ budget = Budget(0, 0, 0, MaxExpiryClock, FewConfigs,
                                       ReturningHooks)

(* a caller invokes ensureLoggedIn(cfg) *)
EnsureLoggedIn(c, cfg) ==
  /\ NextCall(c)
  /\ budget.calls > 0 /\ Spend("calls")
  /\ Finish(ClearStale(calls), renewAuthSequencePromise, c,
            ensureLoggedIn(World, calls[c], cfg, "caller"))
  /\ navigation' = "none"
  /\ UNCHANGED <<config, clock>>

(* the refresh timeout comes due and runs the function tokenRefreshed gave it *)
RefreshTimerFires(c) ==
  /\ NextCall(c)
  /\ budget.calls > 0 /\ Spend("calls")
  /\ \E x \in timeouts :
       /\ x.due <= now
       /\ Finish(ClearStale(calls), renewAuthSequencePromise, c,
                 ensureLoggedIn([World EXCEPT !.timeouts = @ \ {x}], calls[c],
                                TimerConfig, "timer"))
  /\ navigation' = "none"
  /\ UNCHANGED <<config, clock>>

(* a catch that rethrows the error of parseHash as it came *)
RawHashError(out) == ProviderError(out)

(* lines 459-468: the error thrown for a parseHash error other than        *)
(* invalid_token, an object of errorCode and details                        *)
NormalizedError(out) ==
  [error |-> "undefined", authResultError |-> "undefined",
   errorCode |-> IF out = "unverified_email" THEN "UnverifiedEmail" ELSE out,
   shape |-> "normalized"]

(* lines 458-462: the error parseHash called back with is logged under its  *)
(* errorCode; a parseHash without an error logs nothing                     *)
LoginErrorLogged(w, out) ==
  IF out \in {"empty", "tokens"} THEN w
  ELSE Log(w, IF out = "unverified_email" THEN "UnverifiedEmail" ELSE out)

(* a catch that rethrows the invalid_token error too *)
HashErrorThrownAlways(out) == out \notin {"empty", "tokens"}

(* line 466: the error is rethrown unless it is invalid_token *)
HashErrorThrown(out) == out \notin {"empty", "tokens", "invalid_token"}

(* parseHash calls back, lines 456-507; th: what the tokenRefreshed hook    *)
(* does if this step invokes it                                             *)
ParseHashReturns(c, out, th) ==
  /\ calls[c].pc = "parseHash"
  /\ out = "tokens" \/ th = "ok"
  /\ CASE out = "tokens" ->
            Finish(calls, renewAuthSequencePromise, c,
                   refreshProfile(setAuthResult([World EXCEPT !.tokenHook = th],
                                                IssueCredential("parseHash", now)),
                                  calls[c], "hashProfile"))
       [] out # "tokens" /\ HashErrorThrown(out) ->
            Finish(calls, renewAuthSequencePromise, c,
                   [w |-> LoginErrorLogged(World, out),
                    k |-> Reject(calls[c], NormalizedError(out))])
       [] OTHER ->
            LET k == ChainRenewal(calls[c])
                w == LoginErrorLogged(World, out)
            IN  Finish(calls, PendingOn(c), c,
                       IF k.pred.state = "pending" THEN [w |-> w, k |-> k]
                       ELSE ThenRenew(w, k, k.pred))
  /\ navigation' = "none"
  /\ UNCHANGED <<config, budget, clock>>

(* checkSession calls back, lines 571-604; th: what the tokenRefreshed     *)
(* hook does if this step invokes it                                        *)
CheckSessionReturns(c, out, th) ==
  /\ calls[c].pc = "checkSession"
  /\ out = "tokens" \/ th = "ok"
  /\ IF out \in {"timeout", "no_tokens"}
     THEN budget.faults > 0 /\ Spend("faults")
     ELSE UNCHANGED budget
  /\ LET k == calls[c]
         e == IF out = "no_tokens" THEN NoTokenAvailable("undefined")
              ELSE IF out = "no_tokens_error" THEN NoTokenAvailable("provider_error")
              ELSE ProviderError(out)
         cred == IssueCredential("checkSession", now)
     IN  Finish(calls, renewAuthSequencePromise, c,
                IF out = "tokens"
                THEN refreshProfile(setAuthResult([World EXCEPT !.tokenHook = th],
                                                  cred),
                                    [k EXCEPT !.cred = cred], "renewProfile")
                ELSE RenewAuthCatch(World, [k EXCEPT !.lastErr = e], e))
  /\ navigation' = "none"
  /\ UNCHANGED <<config, clock>>

(* the retry timeout of renewAuth comes due, lines 600-601 *)
RetryTimerFires(c) ==
  /\ calls[c].pc = "retryWait"
  /\ calls[c].retryDue <= now
  /\ calls' = [calls EXCEPT ![c] = renewAuth(@, @.retries + 1)]
  /\ settled' = <<>>
  /\ effects' = <<>>
  /\ navigation' = "none"
  /\ UNCHANGED <<config, budget, authResult, tokenExpiresAt, tokenRefreshHandle, sessionId,
                 timeouts, renewAuthSequencePromise, redirectStore, clock>>

(* lines 326-330: getProfile has settled; a profile goes to the             *)
(* profileRefreshed hook, an error to the logger                            *)
profileRetrieved(w, out) ==
  IF out = "error" THEN Log(w, "ProfileError") ELSE InvokeHook(w, "profileRefreshed")

(* lines 326-328: refreshProfile resolves unless the hook throws; what the  *)
(* hook returns, a rejected promise included, is dropped                    *)
refreshProfileResolves(out, hook) == out = "error" \/ hook # "throw"

(* getUser calls back, lines 326-330 and 348-350; hook, th: what the        *)
(* profileRefreshed and the tokenRefreshed hook do if this step invokes them *)
GetUserReturns(c, out, hook, th) ==
  /\ calls[c].pc \in {"renewProfile", "hashProfile"}
  /\ out = "profile" \/ hook = "ok"
  /\ Finish(calls, renewAuthSequencePromise, c,
            SyncDone(profileRetrieved([World EXCEPT !.tokenHook = th], out),
                     calls[c], refreshProfileResolves(out, hook)))
  /\ navigation' = "none"
  /\ UNCHANGED <<config, budget, clock>>

(* authorize calls back, lines 546-552 and 497-503 *)
AuthorizeReturns(c, out) ==
  /\ calls[c].pc = "authorize"
  /\ Finish(calls, renewAuthSequencePromise, c,
            IF out = "tokens"
            THEN [w |-> World, k |-> Resolve(calls[c], "hosted", "undefined")]
            ELSE FailAndRemoveLogin(World, calls[c], ProviderError(out)))
  /\ navigation' = "none"
  /\ UNCHANGED <<config, budget, clock>>

(* the promise the tokenRefreshed hook returned settles, lines 477-483 and  *)
(* 578-584: a rejection is caught and logged, and the invocation resolves   *)
TokenHookSettles(c, out) ==
  /\ calls[c].pc \in {"renewTokenHook", "hashTokenHook"}
  /\ LET w1 == CaughtAndLogged(World, out = "reject")
     IN  Finish(calls, renewAuthSequencePromise, c,
                IF calls[c].pc = "renewTokenHook"
                THEN [w |-> w1, k |-> Resolve(calls[c], "renew", "undefined")]
                ELSE [w |-> attemptRedirect(w1),
                      k |-> Resolve(calls[c], "hash", attemptRedirectValue(w1))])
  /\ navigation' = "none"
  /\ UNCHANGED <<config, budget, clock>>

(* the second of the retry delay passes, line 600, whatever the clock shows *)
RetryDelayPasses ==
  /\ \E c \in CallIds : calls[c].pc = "retryWait" /\ calls[c].retryDue > now
  /\ clock' = clock + 1
  /\ settled' = <<>>
  /\ effects' = <<>>
  /\ navigation' = "none"
  /\ UNCHANGED <<config, budget, authResult, tokenExpiresAt, tokenRefreshHandle, sessionId,
                 timeouts, renewAuthSequencePromise, redirectStore, calls>>

(* the application calls removeLogin(), lines 393-401 *)
RemoveLogin ==
  /\ budget.cleanups > 0 /\ Spend("cleanups")
  /\ Commit(removeLogin(World))
  /\ calls' = MarkStale(calls)
  /\ settled' = <<>>
  /\ navigation' = "none"
  /\ UNCHANGED <<config, renewAuthSequencePromise, clock>>

(* the application calls logout(redirectUriOverride), lines 408-422 *)
Logout(redirectUriOverride) ==
  /\ budget.cleanups > 0 /\ Spend("cleanups")
  /\ Commit(logout(World))
  /\ calls' = MarkStale(calls)
  /\ navigation' = LogoutUrl(redirectUriOverride)
  /\ settled' = <<>>
  /\ UNCHANGED <<config, renewAuthSequencePromise, clock>>

(* something in the program reads the clock: a token or an expiry is held, *)
(* or a timeout is pending                                                  *)
ClockObserved ==
  \/ authResult # NoAuth
  \/ tokenExpiresAt # NULL
  \/ timeouts # {}
  \/ \E c \in CallIds : calls[c].pc = "retryWait"

(* a second passes; while nothing reads the clock its value is left alone   *)
Tick ==
  /\ clock < budget.clock
  /\ ClockObserved
  /\ clock' = clock + 1
  /\ settled' = <<>>
  /\ effects' = <<>>
  /\ navigation' = "none"
  /\ UNCHANGED <<config, budget, authResult, tokenExpiresAt, tokenRefreshHandle, sessionId,
                 timeouts, renewAuthSequencePromise, redirectStore, calls>>

(* ------------------------------------------- the expiry manager alone *)
ExpiresIns == 1..MaxExpiresIn

(* lifetimes with those of a credential that has expired already or does  *)
(* so at once                                                               *)
AnyExpiresIns == (0 - MaxExpiredBy)..MaxExpiresIn

(* the owner of the manager calls scheduleTokenRefresh({ expiresIn }, f) *)
ScheduleTokenRefresh(expiresIn) ==
  /\ Commit(scheduleTokenRefresh(World, [NoAuth EXCEPT !.expiresIn = expiresIn]))
  /\ settled' = <<>>
  /\ navigation' = "none"
  /\ UNCHANGED <<config, budget, renewAuthSequencePromise, calls, clock>>

(* the owner of the manager calls cancelTokenRefresh() *)
CancelTokenRefresh ==
  /\ Commit(cancelTokenRefresh(World))
  /\ settled' = <<>>
  /\ navigation' = "none"
  /\ UNCHANGED <<config, budget, renewAuthSequencePromise, calls, clock>>

(* a timeout comes due and runs the function f, which does nothing *)
TimeoutFires ==
  /\ \E x \in timeouts : x.due <= now /\ timeouts' = timeouts \ {x}
  /\ settled' = <<>>
  /\ effects' = <<>>
  /\ navigation' = "none"
  /\ UNCHANGED <<config, budget, authResult, tokenExpiresAt, tokenRefreshHandle, sessionId,
                 renewAuthSequencePromise, redirectStore, calls, clock>>

(* a second passes *)
ClockAdvances ==
  /\ clock < budget.clock
  /\ clock' = clock + 1
  /\ settled' = <<>>
  /\ effects' = <<>>
  /\ navigation' = "none"
  /\ UNCHANGED <<config, budget, authResult, tokenExpiresAt, tokenRefreshHandle, sessionId,
                 timeouts, renewAuthSequencePromise, redirectStore, calls>>

Callers == \E c \in CallIds, cfg \in budget.configs : EnsureLoggedIn(c, cfg)

RefreshTimer == \E c \in CallIds : RefreshTimerFires(c)

ParseHash ==
  \E c \in CallIds, th \in budget.hooks,
     out \in {"empty", "tokens", "invalid_token", "access_denied", "unverified_email"} :
    ParseHashReturns(c, out, th)

CheckSession ==
  \E c \in CallIds,
     out \in {"tokens", "login_required", "consent_required", "timeout",
              "no_tokens", "no_tokens_error"},
     th \in budget.hooks : CheckSessionReturns(c, out, th)

RetryTimer == \E c \in CallIds : RetryTimerFires(c)

GetUser ==
  \E c \in CallIds, out \in {"profile", "error"}, hook \in budget.hooks,
     th \in budget.hooks : GetUserReturns(c, out, hook, th)

Authorize == \E c \in CallIds, out \in {"tokens", "unauthorized"} : AuthorizeReturns(c, out)

TokenHook == \E c \in CallIds, out \in {"ok", "reject"} : TokenHookSettles(c, out)

Cleanup == RemoveLogin \/ \E u \in LogoutOverrides : Logout(u)

Next ==
  \/ Callers \/ RefreshTimer \/ ParseHash \/ CheckSession \/ RetryTimer
  \/ GetUser \/ Authorize \/ Tick

NextCleanup ==
  \/ Callers \/ RefreshTimer \/ ParseHash \/ CheckSession \/ RetryTimer
  \/ GetUser \/ Authorize \/ Cleanup \/ Tick

NextRenew ==
  \/ Callers \/ ParseHash \/ CheckSession \/ RetryTimer
  \/ GetUser \/ Authorize \/ Tick

NextExpiry ==
  \/ \E expiresIn \in ExpiresIns : ScheduleTokenRefresh(expiresIn)
  \/ CancelTokenRefresh
  \/ TimeoutFires
  \/ ClockAdvances

NextExpired ==
  \/ \E expiresIn \in AnyExpiresIns : ScheduleTokenRefresh(expiresIn)
  \/ CancelTokenRefresh
  \/ TimeoutFires
  \/ ClockAdvances

Spec == Init /\ [][Next]_vars

SpecCleanup == InitCleanup /\ [][NextCleanup]_vars

SpecRenew == InitRenew /\ [][NextRenew]_vars

SpecToken == InitToken /\ [][Next]_vars

SpecExpiry == InitExpiry /\ [][NextExpiry]_vars

SpecExpired == InitExpiry /\ [][NextExpired]_vars

(* invocations one behind the other with hooks whose promises settle later; *)
(* every provider call calls back and every timeout fires                   *)
NextLive ==
  \/ Callers \/ ParseHash \/ CheckSession \/ RetryTimer
  \/ GetUser \/ Authorize \/ TokenHook \/ RetryDelayPasses

ProviderCallsBack ==
  \A c \in CallIds :
    /\ WF_vars(\E th \in budget.hooks,
                  out \in {"empty", "tokens", "invalid_token", "access_denied",
                           "unverified_email"} : ParseHashReturns(c, out, th))
    /\ WF_vars(\E out \in {"tokens", "login_required", "consent_required", "timeout",
                           "no_tokens", "no_tokens_error"},
                  th \in budget.hooks : CheckSessionReturns(c, out, th))
    /\ WF_vars(\E out \in {"profile", "error"}, hook \in budget.hooks,
                  th \in budget.hooks : GetUserReturns(c, out, hook, th))
    /\ WF_vars(\E out \in {"tokens", "unauthorized"} : AuthorizeReturns(c, out))

TimersFire ==
  /\ WF_vars(RetryDelayPasses)
  /\ \A c \in CallIds : WF_vars(RetryTimerFires(c))

TokenHooksSettle ==
  \A c \in CallIds : WF_vars(\E out \in {"ok", "reject"} : TokenHookSettles(c, out))

SpecLive == InitLive /\ [][NextLive]_vars /\ ProviderCallsBack /\ TimersFire

(* ----------------------------------------------------------- properties *)
(* the invocations the step just taken settled *)
SettledNow == {settled[i] : i \in DOMAIN settled}

(* the invocations there are to look at: those in flight and those just     *)
(* settled                                                                  *)
Observed == {calls[c] : c \in CallIds} \cup SettledNow

(* a renewal sequence is executing: between its first checkSession call and *)
(* the settling of the invocation                                           *)
InSequence(k) ==
  k.pc \in {"checkSession", "retryWait", "renewProfile", "renewTokenHook", "authorize"}

(* the step is the synchronous part of an ensureLoggedIn invocation *)
IsEntry == budget'.calls < budget.calls

(* the invocation an entry step made, as the step left it *)
EnteredCall ==
  IF settled' # <<>> THEN settled'[1]
  ELSE calls'[CHOOSE c \in CallIds : calls[c].pc = "idle" /\ calls'[c].pc # "idle"]

(* C1: at most one renewal sequence (checkSession retry loop, profile       *)
(* refresh, hosted-login fallback) is executing in any reachable state; an  *)
(* invocation that needs renewal while a sequence is in flight waits, and   *)
(* leaves the wait for its first checkSession only in the step in which the *)
(* invocation it waited for settles; the refresh timer's invocations too.   *)
C1_Serialization ==
  /\ [](Cardinality({c \in CallIds : InSequence(calls[c])}) <= 1)
  /\ [](\A c \in CallIds :
          calls[c].pc = "queued" =>
            /\ calls[c].nCheck = 0
            /\ calls[c].pred.state = "pending"
            /\ calls[calls[c].pred.call].pc \in
                 {"queued", "checkSession", "retryWait", "renewProfile", "authorize"})
  /\ [][\A c \in CallIds :
          /\ (calls[c].pc = "parseHash" /\ calls'[c].pc = "checkSession")
               => \A d \in CallIds : ~InSequence(calls[d]) /\ calls[d].pc # "queued"
          /\ (calls[c].pc = "queued" /\ calls'[c].pc # "queued")
               => /\ Len(settled') = 1
                  /\ calls'[calls[c].pred.call].pc = "idle"
                  /\ calls'[c].pc = "checkSession" /\ calls'[c].nCheck = 1]_vars

(* C1 witness: an invocation of the refresh timer that had to wait has just *)
(* been let to its first checkSession by the settling of the one before it  *)
C1_TimerWaitedItsTurn ==
  \E c \in CallIds :
    /\ calls[c].origin = "timer" /\ calls[c].behind
    /\ calls[c].pc = "checkSession" /\ calls[c].nCheck = 1
    /\ settled # <<>>

(* C2 as claimed: of two invocations started concurrently while no token is *)
(* held, the second issues no checkSession of its own when the first one's  *)
(* renewal succeeds                                                         *)
C2_SingleCheckSession ==
  \A k \in Observed :
    (/\ budget.calls = MaxCalls - 2
     /\ k.behind /\ k.entry = "noToken" /\ k.predVia = "renew")
      => k.nCheck = 0

(* C2 as amended: every invocation that renews issues its own checkSession: *)
(* one that had to wait issues none while it waits and its first once the   *)
(* invocation before it has settled, and an invocation resolved by renewal  *)
(* has made one checkSession call per attempt, so two concurrent            *)
(* invocations that both succeed at once make two calls, one each           *)
C2_OwnCheckSession ==
  \A k \in Observed :
    /\ k.pc = "queued" => k.nCheck = 0 /\ k.predVia = "none"
    /\ (k.behind /\ k.pc # "queued") => k.nCheck >= 1 /\ k.predVia # "none"
    /\ (k.pc = "resolved" /\ k.via = "renew") => k.nCheck = k.retries + 1

(* C2 witness: the second of two concurrent invocations without a token     *)
(* resolves by its own single checkSession after the first one's succeeded  *)
C2_SecondRenewedItself ==
  /\ budget.calls = MaxCalls - 2
  /\ \E k \in SettledNow :
       /\ k.pc = "resolved" /\ k.via = "renew"
       /\ k.behind /\ k.entry = "noToken" /\ k.predVia = "renew"
       /\ k.nCheck = 1

(* C3 as claimed: a renewal that was in flight (checkSession or retry wait) *)
(* when logout() or removeLogin() was called, and that succeeds before any  *)
(* new ensureLoggedIn call, leaves the credential null and no timer pending *)
C3_NoResurrection ==
  \A k \in SettledNow :
    (k.pc = "resolved" /\ k.stale) => (authResult = NoAuth /\ timeouts = {})

(* C4: an entry with forceTokenRefresh unset, a token from getIdToken() and *)
(* a positive remaining time resolves in the same step, having called       *)
(* neither parseHash nor checkSession nor authorize, and leaves credential, *)
(* expiry record, timer handle and pending timeouts as they were            *)
C4_FastPath ==
  [][(/\ IsEntry
      /\ getIdTokenValue(World) # NULL
      /\ getRemainingMillisToTokenExpiry(World) > 0
      /\ EnteredCall.entry # "forcedValid")
       => /\ Len(settled') = 1
          /\ settled'[1].pc = "resolved" /\ settled'[1].via = "fast"
          /\ settled'[1].nCheck = 0 /\ settled'[1].nAuthorize = 0
          /\ \A c \in CallIds : calls'[c].pc = calls[c].pc
          /\ authResult' = authResult
          /\ tokenExpiresAt' = tokenExpiresAt
          /\ tokenRefreshHandle' = tokenRefreshHandle
          /\ timeouts' = timeouts]_vars

(* C4 witness: a caller's invocation has resolved by the short cut while a  *)
(* credential is held and its refresh timeout is pending                    *)
C4_ResolvedAtOnce ==
  /\ \E k \in SettledNow :
       /\ k.pc = "resolved" /\ k.via = "fast" /\ k.origin = "caller"
       /\ k.entry = "valid"
  /\ authResult # NoAuth /\ timeouts # {}

(* C5 as claimed: an invocation with forceTokenRefresh that found a valid   *)
(* token with remaining time settles only after a checkSession call, unless *)
(* the hash carried tokens                                                  *)
C5_ForcedRenews ==
  \A k \in SettledNow :
    k.entry = "forcedValid" => (k.via = "hash" \/ k.nCheck >= 1)

(* C5 as amended: such an invocation never takes the short cut: it calls    *)
(* parseHash, and settles only after a checkSession call, unless the hash   *)
(* carried tokens or parseHash failed with an error other than              *)
(* invalid_token, which rejects the invocation before any renewal           *)
C5_ForcedRenewsUnlessHashError ==
  /\ \A k \in SettledNow :
       k.entry = "forcedValid"
         => \/ k.via = "hash"
            \/ k.nCheck >= 1
            \/ (k.pc = "rejected" /\ k.err.shape = "normalized" /\ k.nCheck = 0)
  /\ \A c \in CallIds :
       calls[c].entry = "forcedValid"
         => \/ calls[c].pc \in {"parseHash", "hashProfile", "queued"}
            \/ calls[c].nCheck >= 1

(* C5 witness: a caller's forced invocation that found a valid token has    *)
(* resolved by a renewal with a checkSession call                           *)
C5_ForcedRenewed ==
  \E k \in SettledNow :
    /\ k.pc = "resolved" /\ k.via = "renew" /\ k.origin = "caller"
    /\ k.entry = "forcedValid"
    /\ k.nCheck >= 1

(* an error after which renewAuth is to retry: not one of the two fatal     *)
(* codes, and no error captured from the authResult                         *)
RetryableError(e) ==
  /\ e.shape # "none"
  /\ e.error \notin {"consent_required", "login_required"}
  /\ e.authResultError = "undefined"

(* C6: no invocation makes a 6th checkSession call; the attempts are        *)
(* numbered 0..4, one call each; and a renewal that ends with a retryable   *)
(* error (every attempt before it failed with one too) has made exactly 5   *)
(* calls and rejects with the error of the last                             *)
C6_RetryBound ==
  \A k \in Observed :
    /\ k.nCheck <= 5
    /\ k.pc \in {"checkSession", "retryWait"}
         => /\ k.retries \in 0..4
            /\ k.nCheck = k.retries + 1
            /\ k.renewErr = NoError
    /\ k.pc = "retryWait" => k.retries < 4 /\ RetryableError(k.lastErr)
    /\ RetryableError(k.renewErr)
         => k.nCheck = 5 /\ k.retries = 4 /\ k.renewErr = k.lastErr

(* C6 witness: a renewal has been rejected with the timeout of its 5th      *)
(* checkSession call                                                        *)
C6_FifthAttemptFailed ==
  \E k \in SettledNow :
    /\ k.pc = "rejected" /\ k.nCheck = 5 /\ k.retries = 4
    /\ k.renewErr.error = "timeout" /\ k.err = k.renewErr

(* C7: once a checkSession call of an invocation has failed with            *)
(* consent_required or login_required, at whatever attempt, the invocation  *)
(* is neither waiting for a retry nor in another checkSession call, and its *)
(* renewal has been rejected with that error, after one call per attempt    *)
C7_FatalShortCircuit ==
  \A k \in Observed :
    k.lastErr.error \in {"consent_required", "login_required"}
      => /\ k.pc \notin {"checkSession", "retryWait"}
         /\ k.renewErr = k.lastErr
         /\ k.nCheck = k.retries + 1

(* C7 witness: consent_required at a second attempt has ended the renewal   *)
(* and the invocation has gone on to the hosted login                       *)
C7_FatalAtRetry ==
  \E c \in CallIds :
    /\ calls[c].pc = "authorize"
    /\ calls[c].lastErr.error = "consent_required"
    /\ calls[c].retries = 1 /\ calls[c].nCheck = 2

(* C8 as claimed: once checkSession has called back without tokens, the     *)
(* invocation makes no retry: its renewal has been rejected with            *)
(* no_token_available                                                       *)
C8_NoTokenTerminal ==
  \A k \in Observed :
    k.lastErr.error = "no_token_available"
      => /\ k.pc \notin {"checkSession", "retryWait"}
         /\ k.renewErr = k.lastErr

(* C8 as amended: the attempt is rejected with no_token_available; it ends  *)
(* the renewal without a retry when the result carried an error field, and  *)
(* is retried like any retryable error, up to the 5th call, when the result *)
(* was empty, undefined or without an error field                           *)
C8_NoTokenTerminalWithError ==
  \A k \in Observed :
    /\ (k.lastErr.error = "no_token_available"
        /\ k.lastErr.authResultError # "undefined")
         => /\ k.pc \notin {"checkSession", "retryWait"}
            /\ k.renewErr = k.lastErr
    /\ (k.lastErr.error = "no_token_available"
        /\ k.lastErr.authResultError = "undefined")
         => IF k.nCheck < 5 THEN k.renewErr = NoError
            ELSE k.renewErr \in {NoError, k.lastErr}

(* C8 witness: a result with an error field has ended a renewal at its      *)
(* first attempt                                                            *)
C8_EndedByResultError ==
  \E k \in SettledNow :
    /\ k.pc = "rejected" /\ k.nCheck = 1
    /\ k.renewErr.error = "no_token_available"
    /\ k.renewErr.authResultError = "provider_error"

(* the renewal of invocation k has failed for good *)
FailedTerminally(k) ==
  /\ k.renewErr # NoError
  /\ k.renewErr = k.lastErr
  /\ \/ k.renewErr.error \in {"consent_required", "login_required"}
     \/ k.renewErr.authResultError # "undefined"
     \/ k.nCheck = 5

(* C9: an invocation with enabledHostedLogin false whose renewal fails      *)
(* terminally is rejected in that step with the renewal's error, has never  *)
(* called authorize, has invoked removeLogin once, and leaves the           *)
(* credential null, the expiry record cleared and no refresh timer pending  *)
C9_FallbackDisabled ==
  /\ \A k \in SettledNow :
       (k.pc = "rejected" /\ ~k.cfg.enabledHostedLogin /\ k.renewErr # NoError)
         => /\ FailedTerminally(k)
            /\ k.err = k.renewErr
            /\ k.nAuthorize = 0
            /\ k.nRemoveLogin = 1
            /\ authResult = NoAuth
            /\ tokenExpiresAt = NULL
            /\ tokenRefreshHandle = NULL
            /\ timeouts = {}
  /\ \A c \in CallIds :
       ~calls[c].cfg.enabledHostedLogin
         => /\ calls[c].pc # "authorize" /\ calls[c].nAuthorize = 0
            /\ calls[c].renewErr = NoError /\ calls[c].nRemoveLogin = 0

(* C9 witness: an invocation that found a valid token, was forced to renew  *)
(* it and had no hosted login to fall back to has been rejected             *)
C9_RejectedWithoutFallback ==
  \E k \in SettledNow :
    /\ k.pc = "rejected" /\ ~k.cfg.enabledHostedLogin
    /\ k.entry = "forcedValid"
    /\ k.renewErr # NoError /\ k.nRemoveLogin = 1

C11_HostedLoginFails ==
  \A k \in SettledNow :
    (k.pc = "rejected" /\ k.nAuthorize = 1)
      => /\ k.renewErr # NoError
         /\ k.err.error = "unauthorized" /\ k.err.shape = "auth0"
         /\ k.err # k.renewErr
         /\ k.nRemoveLogin = 1
         /\ "removeLogin" \in config.hooks
              => \E i \in DOMAIN effects : effects[i] = "hook:removeLogin"
         /\ authResult = NoAuth
         /\ tokenExpiresAt = NULL
         /\ tokenRefreshHandle = NULL
         /\ timeouts = {}

(* C11 witness: an invocation that was forced to renew a valid token has    *)
(* been rejected by the failure of its hosted login, and the step cancelled *)
(* the refresh timer that was pending                                       *)
C11_RejectedByHostedLogin ==
  \E k \in SettledNow :
    /\ k.pc = "rejected" /\ k.nAuthorize = 1 /\ k.entry = "forcedValid"
    /\ k.err.error = "unauthorized"
    /\ \E i \in DOMAIN effects : effects[i] = "clearTimeout"

(* C12: whenever an invocation made without requireValidSession resolves, *)
(* a credential with an access token and an id token is stored; a single    *)
(* invocation finds no authorization session, so that with                  *)
(* requireValidSession it resolves by the no-session path                   *)
C12_ResolvedMeansLoggedIn ==
  \A k \in SettledNow :
    (k.pc = "resolved" /\ k.via # "noSession")
      => authResult.accessToken # NULL /\ authResult.idToken # NULL

(* an effect other than the cancelling of a pending timeout *)
NotClearTimeout(e) == e # "clearTimeout"

(* what logout() does when the hooks named are configured, in order *)
LogoutEffects(hooks) ==
  <<"cancelTokenRefresh", "clear">>
    \o (IF "removeLogin" \in hooks THEN <<"hook:removeLogin">> ELSE <<>>)
    \o (IF "logout" \in hooks THEN <<"hook:logout">> ELSE <<>>)
    \o <<"updateWindow">>

StateOf(w) == [w EXCEPT !.effects = <<>>]

(* the handler that led from w0 to w made no clearTimeout call *)
NoTimeoutCleared(w) == \A i \in DOMAIN w.effects : w.effects[i] # "clearTimeout"

(* no refresh is scheduled: no expiry record and no timer handle *)
NothingScheduled == tokenExpiresAt = NULL /\ tokenRefreshHandle = NULL

(* removeLogin() and cancelTokenRefresh() called twice in a row leave the   *)
(* state they leave when called once, the second call clearing no timeout   *)
CleanupIdempotent ==
  LET r1 == removeLogin([World EXCEPT !.effects = <<>>])
      r2 == removeLogin(StateOf(r1))
      c1 == cancelTokenRefresh([World EXCEPT !.effects = <<>>])
      c2 == cancelTokenRefresh(StateOf(c1))
  IN  /\ StateOf(r2) = StateOf(r1) /\ NoTimeoutCleared(r2)
      /\ StateOf(c2) = StateOf(c1) /\ NoTimeoutCleared(c2)
      /\ r1.authResult = NoAuth
      /\ r1.tokenExpiresAt = NULL /\ c1.tokenExpiresAt = NULL
      /\ r1.tokenRefreshHandle = NULL /\ c1.tokenRefreshHandle = NULL
      /\ \A x \in r1.timeouts : x.handle # tokenRefreshHandle
      /\ getRemainingMillisToTokenExpiry(r1) = 0
      /\ getRemainingMillisToTokenExpiry(c1) = 0

(* C14 as stated: cleanup is idempotent, and cancelTokenRefresh() called    *)
(* when nothing is scheduled changes nothing and clears no timeout          *)
C14_CleanupChangesNothing ==
  /\ CleanupIdempotent
  /\ NothingScheduled
       => LET c1 == cancelTokenRefresh([World EXCEPT !.effects = <<>>])
          IN  StateOf(c1) = StateOf(World) /\ NoTimeoutCleared(c1)

(* C14 amended: cleanup is idempotent, and cancelTokenRefresh() called when *)
(* nothing is scheduled clears no timeout and leaves the expiry record, the *)
(* handle, the pending timeouts and the credential as they are; the         *)
(* authorization session, if there is one, it ends                          *)
C14_CleanupIdempotent ==
  /\ CleanupIdempotent
  /\ NothingScheduled
       => LET c1 == cancelTokenRefresh([World EXCEPT !.effects = <<>>])
          IN  /\ StateOf(c1) = StateOf([World EXCEPT !.sessionId = FALSE])
              /\ NoTimeoutCleared(c1)
              /\ ~authorizationSessionExists(c1)

(* C14 witness: removeLogin() has just run while a refresh timer was        *)
(* pending and has cleared it with the credential                           *)
C14_RemovedLoginWithTimer ==
  /\ navigation = "none"
  /\ Len(effects) >= 3
  /\ SubSeq(effects, 1, 3) = <<"cancelTokenRefresh", "clearTimeout", "clear">>
  /\ authResult = NoAuth /\ tokenRefreshHandle = NULL /\ timeouts = {}

(* the effects of the step just taken include e *)
DidNow(e) == \E i \in DOMAIN effects' : effects'[i] = e

(* the step just taken logged an error of the post-login sync *)
LoggedNow == DidNow("log:ProfileError") \/ DidNow("log:TokenRefreshFailed")

(* the step settled an invocation as resolved by its renewal or by the URL  *)
(* hash, without an error for the caller, without removeLogin, and cleared  *)
(* nothing                                                                  *)
ResolvedUnharmed ==
  /\ settled' # <<>>
  /\ settled'[1].pc = "resolved" /\ settled'[1].via \in {"renew", "hash"}
  /\ settled'[1].err = NoError /\ settled'[1].nRemoveLogin = 0
  /\ ~DidNow("hook:removeLogin") /\ ~DidNow("clear") /\ ~DidNow("cancelTokenRefresh")

(* the step is the end of the post-login sync in which the profile fetch    *)
(* gave out, the profileRefreshed hook did hook and the tokenRefreshed hook *)
(* did th                                                                   *)
SyncEnded(c, out, hook, th) ==
  \/ /\ out # "none" /\ hook # "none"
     /\ GetUserReturns(c, out, hook, th)
  \/ /\ out = "none" /\ hook = "none"
     /\ CheckSessionReturns(c, "tokens", th) \/ ParseHashReturns(c, "tokens", th)

(* invocation c was waiting for the provider and the step moved it on, not  *)
(* into the wait for its profile                                            *)
MovedOn(c) ==
  /\ calls[c].pc \in {"parseHash", "checkSession", "renewProfile", "hashProfile"}
  /\ calls'[c].pc \notin {calls[c].pc, "renewProfile", "hashProfile"}

(* C15 as stated: whenever the profile fetch fails, or the profileRefreshed *)
(* or the tokenRefreshed hook throws or rejects in the post-login sync, the *)
(* step logs the error and resolves the invocation, with no error for the   *)
(* caller and without removeLogin                                           *)
C15_BrokenHookLogged ==
  [][\A c \in CallIds : MovedOn(c) =>
      \A out \in {"profile", "error", "none"}, hook \in HookOutcomes \cup {"none"},
         th \in HookOutcomes :
       (/\ SyncEnded(c, out, hook, th)
        /\ \/ out = "error"
           \/ hook \in {"throw", "reject"}
           \/ "tokenRefreshed" \in config.hooks /\ th \in {"throw", "reject"})
         => LoggedNow /\ ResolvedUnharmed]_vars

(* the sync that ends is one after a hash parse whose credential a          *)
(* removeLogin() of another invocation has cleared in the meantime          *)
HashCredentialGone(out) ==
  out # "none" /\ settled'[1].via = "hash" /\ authResult = NoAuth

(* C15 amended: the post-login sync always ends with the invocation         *)
(* resolved, no error for the caller and no removeLogin; a failed profile   *)
(* fetch is logged and the tokenRefreshed hook still runs; a profileRefreshed *)
(* hook that throws is logged and the tokenRefreshed hook is skipped; a     *)
(* tokenRefreshed hook that throws or rejects is logged; a rejected promise *)
(* returned by the profileRefreshed hook is dropped and not logged; if the  *)
(* credential of a hash parse is gone by then, tokenRefreshed fails before  *)
(* its hook, which is logged                                                *)
C15_BrokenHookResolves ==
  [][\A c \in CallIds : MovedOn(c) =>
      \A out \in {"profile", "error", "none"}, hook \in HookOutcomes \cup {"none"},
         th \in HookOutcomes :
       SyncEnded(c, out, hook, th)
         => /\ ResolvedUnharmed
            /\ out = "error" => DidNow("log:ProfileError")
            /\ hook = "throw"
                 => DidNow("log:TokenRefreshFailed") /\ ~DidNow("hook:tokenRefreshed")
            /\ (hook # "throw" /\ "tokenRefreshed" \in config.hooks
                  /\ ~HashCredentialGone(out))
                 => /\ DidNow("hook:tokenRefreshed")
                    /\ th # "ok" => DidNow("log:TokenRefreshFailed")
            /\ (hook = "reject" /\ th = "ok" /\ ~HashCredentialGone(out)) => ~LoggedNow
            /\ (hook # "throw" /\ HashCredentialGone(out))
                 => DidNow("log:TokenRefreshFailed") /\ ~DidNow("hook:tokenRefreshed")]_vars

(* C15 witness: a renewal has resolved in a step in which the tokenRefreshed *)
(* hook was invoked and what it threw was logged                            *)
C15_ResolvedDespiteBrokenHook ==
  /\ settled # <<>> /\ settled[1].pc = "resolved" /\ settled[1].via = "renew"
  /\ Len(effects) >= 2
  /\ effects[Len(effects) - 1] = "hook:tokenRefreshed"
  /\ effects[Len(effects)] = "log:TokenRefreshFailed"

(* invocation k was rejected by the failure of its hosted login *)
RejectedByHostedLogin(k) ==
  k.nAuthorize = 1 /\ k.err.error = "unauthorized" /\ k.err # k.renewErr

(* invocation k was rejected by the terminal failure of its renewal, the    *)
(* fallback disabled                                                        *)
RejectedByRenewal(k) ==
  /\ ~k.cfg.enabledHostedLogin /\ k.nAuthorize = 0
  /\ FailedTerminally(k) /\ k.err = k.renewErr

(* invocation k was rejected by an error of the URL-hash parse, before any  *)
(* renewal                                                                  *)
RejectedByHashParse(k) ==
  /\ k.nCheck = 0 /\ k.nAuthorize = 0 /\ k.renewErr = NoError
  /\ k.err.errorCode \in {"access_denied", "UnverifiedEmail"}
  /\ k.nRemoveLogin = 0

(* C16 as stated: an invocation is rejected only by the failure of its      *)
(* hosted login or by the terminal failure of its renewal with the fallback *)
(* disabled; no failure of the URL-hash parse rejects it                    *)
C16_RejectsOnlyFromFallback ==
  \A k \in SettledNow :
    k.pc = "rejected" => RejectedByHostedLogin(k) \/ RejectedByRenewal(k)

(* C16 amended: an invocation is rejected only by the failure of its hosted *)
(* login, by the terminal failure of its renewal with the fallback          *)
(* disabled, or by an error of the URL-hash parse other than invalid_token, *)
(* which rejects before any renewal and without removeLogin; a failed       *)
(* attempt that is retried rejects nothing                                  *)
C16_RejectsFromFallbackOrHash ==
  /\ \A k \in SettledNow :
       k.pc = "rejected"
         => \/ RejectedByHostedLogin(k)
            \/ RejectedByRenewal(k)
            \/ RejectedByHashParse(k)
  /\ \A c \in CallIds :
       calls[c].pc = "retryWait" => calls[c].err = NoError /\ calls[c].lastErr # NoError

(* C16 witness: an invocation has been rejected by the access_denied error  *)
(* of the URL-hash parse                                                    *)
C16_RejectedByHashError ==
  \E k \in SettledNow :
    /\ k.pc = "rejected" /\ k.err.errorCode = "access_denied"
    /\ k.nCheck = 0 /\ k.nAuthorize = 0

(* C17 as stated: every rejection carries the normalized error shape of   *)
(* errorCode and details, whichever step failed                             *)
C17_NormalizedRejections ==
  \A k \in SettledNow : k.pc = "rejected" => k.err.shape = "normalized"

(* C17 amended: a rejection carries the normalized shape of errorCode and   *)
(* details exactly when the URL-hash parse failed, the code being that of   *)
(* the provider or UnverifiedEmail for an unverified address; a rejection   *)
(* by the renewal or by the hosted login carries the error as it came: the  *)
(* provider's error object or the no_token_available object of renewAuth    *)
C17_NormalizedOnlyFromHash ==
  /\ [](\A k \in SettledNow :
          k.pc = "rejected"
            => IF k.nCheck = 0 /\ k.nAuthorize = 0
               THEN /\ k.err.shape = "normalized"
                    /\ k.err.errorCode \in {"access_denied", "UnverifiedEmail"}
                    /\ k.err.error = "undefined"
               ELSE /\ k.err.shape \in {"auth0", "renew"}
                    /\ k.err.errorCode = "undefined"
                    /\ k.err.error \in {"login_required", "consent_required", "timeout",
                                        "no_token_available", "unauthorized"})
  /\ [][\A c \in CallIds :
          (calls[c].pc = "parseHash" /\ ParseHashReturns(c, "unverified_email", "ok"))
            => /\ settled' # <<>>
               /\ settled'[1].pc = "rejected"
               /\ settled'[1].err.errorCode = "UnverifiedEmail"]_vars

(* C17 witness: an invocation without the fallback has been rejected with   *)
(* the no_token_available object of renewAuth, which has no errorCode       *)
C17_RejectedWithRawError ==
  \E k \in SettledNow :
    /\ k.pc = "rejected" /\ ~k.cfg.enabledHostedLogin
    /\ k.err.error = "no_token_available" /\ k.err.errorCode = "undefined"
    /\ k.err.shape = "renew"

(* the valid-token short cut applies to a call made with cfg now *)
ShortCutApplies(cfg) ==
  /\ ~cfg.forceTokenRefresh
  /\ getIdTokenValue(World) # NULL
  /\ getRemainingMillisToTokenExpiry(World) > 0

(* an authorization session exists when the call comes to ask for it: one   *)
(* was created before, or the call's own getIdToken() finds a valid token   *)
(* and creates it                                                           *)
SessionAtCheck == sessionId \/ getIdTokenValue(World) # NULL

(* C18: a call made with requireValidSession, to which the short cut does   *)
(* not apply and for which no authorization session exists, resolves in its *)
(* own step with undefined, has called neither parseHash nor checkSession   *)
(* nor authorize, and leaves the credential, the expiry record, the timer,  *)
(* the session, the retained sequence and the other invocations as they     *)
(* were; a call resolves this way only then, and with a session it goes on  *)
(* to parseHash                                                             *)
C18_RequireValidSession ==
  [][IsEntry =>
      \A c \in CallIds, cfg \in Configs :
        EnsureLoggedIn(c, cfg)
          => /\ (cfg.requireValidSession /\ ~ShortCutApplies(cfg) /\ ~SessionAtCheck)
                  => /\ Len(settled') = 1
                     /\ settled'[1].pc = "resolved" /\ settled'[1].via = "noSession"
                     /\ settled'[1].result = "undefined"
                     /\ settled'[1].nCheck = 0 /\ settled'[1].nAuthorize = 0
                     /\ authResult' = authResult
                     /\ tokenExpiresAt' = tokenExpiresAt
                     /\ tokenRefreshHandle' = tokenRefreshHandle
                     /\ timeouts' = timeouts
                     /\ sessionId' = sessionId
                     /\ renewAuthSequencePromise' = renewAuthSequencePromise
                     /\ effects' = <<>>
                     /\ \A d \in CallIds : calls'[d].pc = calls[d].pc
             /\ (settled' # <<>> /\ settled'[1].via = "noSession")
                  => cfg.requireValidSession /\ ~SessionAtCheck
             /\ (cfg.requireValidSession /\ ~ShortCutApplies(cfg) /\ SessionAtCheck)
                  => calls'[c].pc = "parseHash" /\ sessionId']_vars

(* C18 witness: a call has resolved for want of a session while the         *)
(* renewal of another invocation is waiting for checkSession                *)
C18_ResolvedWithoutSession ==
  /\ settled # <<>> /\ settled[1].via = "noSession"
  /\ \E c \in CallIds : calls[c].pc = "checkSession"
  /\ renewAuthSequencePromise.state = "pending"

(* C19 as stated: getIdToken() returns a token only when a credential is  *)
(* stored and the remaining millis are positive                             *)
C19_TokenOnlyWithRemaining ==
  getIdTokenValue(World) # NULL
    => authResult # NoAuth /\ getRemainingMillisToTokenExpiry(World) > 0

(* C19 amended: getIdToken() returns a token exactly when a credential is   *)
(* stored and the exp claim of its access token lies after the current      *)
(* second, and the token is the stored access token; the expiry record      *)
(* does not enter: the remaining millis may be positive while it returns    *)
(* null only if the stored token has expired or none is stored              *)
C19_TokenValidByExpClaim ==
  /\ getIdTokenValue(World) # NULL
       <=> (authResult.accessToken # NULL /\ authResult.exp > clock)
  /\ getIdTokenValue(World) # NULL
       => authResult # NoAuth /\ getIdTokenValue(World) = authResult.accessToken
  /\ (getIdTokenValue(World) = NULL /\ getRemainingMillisToTokenExpiry(World) > 0)
       => authResult = NoAuth \/ authResult.exp <= clock

(* C19 witness: a refresh is scheduled and its time is up, the refresh      *)
(* timer has not fired yet, and getIdToken() still returns the token        *)
C19_TokenPastRefreshTime ==
  /\ getIdTokenValue(World) # NULL
  /\ tokenExpiresAt # NULL /\ getRemainingMillisToTokenExpiry(World) <= 0
  /\ timeouts # {}

(* the places of effect e in the step just taken *)
Places(e) == {i \in DOMAIN effects : effects[i] = e}

(* C20 as stated: the refresh timer is armed only after the tokenRefreshed  *)
(* hook has been invoked, which runs after the profileRefreshed hook and    *)
(* after the credential is stored                                           *)
C20_TimerArmedAfterHooks ==
  \A i \in Places("setTimeout") :
    "tokenRefreshed" \in config.hooks
      => \E j \in Places("hook:tokenRefreshed") : j < i

(* C20 amended: the credential is stored first; the profileRefreshed hook   *)
(* runs when the profile has come, in a later step than the storing; then   *)
(* tokenRefreshed stores the credential again, arms the refresh timer       *)
(* (after clearing the one pending) and only then invokes the tokenRefreshed *)
(* hook: the timer is always armed before that hook, never after            *)
C20_HookAfterTimerArmed ==
  /\ [](\A i \in Places("setTimeout") :
          /\ i > 1 /\ effects[i - 1] \in {"store", "clearTimeout"}
          /\ \E j \in Places("store") : j < i
          /\ \A j \in Places("hook:profileRefreshed") : j < i
          /\ "tokenRefreshed" \in config.hooks
               => i < Len(effects) /\ effects[i + 1] = "hook:tokenRefreshed")
  /\ [](\A j \in Places("hook:tokenRefreshed") :
          j > 1 /\ effects[j - 1] = "setTimeout")
  /\ [](\A j \in Places("hook:profileRefreshed") : j = 1)
  /\ [][\A c \in CallIds :
          /\ (calls[c].pc \in {"checkSession", "parseHash"}
               /\ calls'[c].pc \in {"renewProfile", "hashProfile"})
                => effects' = <<"store">> /\ authResult' # NoAuth
          /\ (\E j \in DOMAIN effects' : effects'[j] = "hook:profileRefreshed")
                => \E d \in CallIds : calls[d].pc \in {"renewProfile", "hashProfile"}]_vars

(* C20 witness: a step has run the profileRefreshed hook, stored the        *)
(* credential, replaced the pending refresh timer and then invoked the      *)
(* tokenRefreshed hook                                                      *)
C20_RefreshedInOrder ==
  effects = <<"hook:profileRefreshed", "store", "clearTimeout", "setTimeout",
              "hook:tokenRefreshed">>

(* C21: after every successful silent renewal the tokenRefreshed hook has   *)
(* been invoked and a refresh timer is pending with a recorded expiry,      *)
(* also when the profile could not be fetched or the profileRefreshed hook  *)
(* threw                                                                    *)
C21_RenewedMeansRefreshed ==
  \A k \in SettledNow :
    k.pc = "resolved" /\ k.via = "renew"
      => /\ "tokenRefreshed" \in config.hooks => Places("hook:tokenRefreshed") # {}
         /\ timeouts # {}
         /\ Truthy(tokenExpiresAt)

(* C22: when authorize calls back with a credential, the invocation goes   *)
(* on as after a successful renewal: by the time it resolves the credential *)
(* is stored, the tokenRefreshed hook has been invoked and the next refresh *)
(* is scheduled                                                             *)
C22_HostedLoginRefreshes ==
  \A k \in SettledNow :
    k.pc = "resolved" /\ k.via = "hosted"
      => /\ authResult.src = "authorize"
         /\ "tokenRefreshed" \in config.hooks => Places("hook:tokenRefreshed") # {}
         /\ Places("setTimeout") # {}
         /\ \E x \in timeouts : x.handle = tokenRefreshHandle

(* C23: the retained sequence renewAuthSequencePromise is pending or       *)
(* fulfilled in every reachable state, never rejected, and so is the        *)
(* promise every invocation is chained onto: a renewal or a hosted login    *)
(* that fails rejects the promise of its caller only                        *)
C23_SequenceNeverRejected ==
  /\ renewAuthSequencePromise.state \in {"pending", "fulfilled"}
  /\ \A c \in CallIds : calls[c].pred.state \in {"pending", "fulfilled"}
  /\ \A k \in SettledNow :
       k.pc = "rejected" => renewAuthSequencePromise # Rejected(k.err)

(* C23 witness: an invocation has just been rejected behind which another   *)
(* one was chained, and the retained sequence is the one still pending      *)
C23_RejectedWithFollower ==
  /\ \E k \in SettledNow : k.pc = "rejected" /\ k.nCheck > 0
  /\ renewAuthSequencePromise.state = "pending"
  /\ \E c \in CallIds : calls[c].behind /\ calls[c].predVia = "rejected"

(* C24: each caller gets its own outcome: an invocation chained behind a   *)
(* sequence that failed starts its own renewal with a checkSession call the *)
(* moment that sequence has settled, carries no error of it, and is         *)
(* resolved by its own renewal or hosted login or rejected by the failure   *)
(* of its own; an invocation made after the failure finds the retained      *)
(* sequence fulfilled and renews at once                                    *)
C24_OwnOutcome ==
  /\ [](\A k \in Observed :
          (k.predVia = "rejected" /\ k.pc # "queued")
            => /\ k.nCheck >= 1
               /\ k.pc = "rejected"
                    => RejectedByHostedLogin(k) \/ RejectedByRenewal(k)
               /\ k.pc = "resolved"
                    => \/ k.via = "renew" /\ k.nCheck = k.retries + 1
                       \/ k.via = "hosted" /\ k.nAuthorize = 1)
  /\ [][\A c \in CallIds :
          (calls[c].pc = "queued" /\ calls'[c].pc \notin {"queued", "idle"})
            => /\ calls'[c].pc = "checkSession" /\ calls'[c].nCheck = 1
               /\ calls'[c].err = NoError /\ calls'[c].lastErr = NoError
               /\ calls'[c].renewErr = NoError /\ calls'[c].pred = Fulfilled]_vars
  /\ [][(IsEntry /\ renewAuthSequencePromise = Fulfilled)
          => \A c \in CallIds :
               (calls[c].pc = "idle" /\ calls'[c].pc # "idle")
                 => calls'[c].pc # "queued" /\ ~calls'[c].behind]_vars

(* C24 witness: an invocation that waited behind one that was rejected has  *)
(* been resolved by its own renewal                                         *)
C24_RenewedBehindFailure ==
  \E k \in SettledNow :
    /\ k.pc = "resolved" /\ k.via = "renew"
    /\ k.behind /\ k.predVia = "rejected" /\ k.nCheck = 1

ArmedDelay == {x.due - now : x \in {y \in timeouts' : y.handle = tokenRefreshHandle'}}

(* C26 as stated: for a credential with expiresIn = E seconds,              *)
(* scheduleTokenRefresh arms the timer with a delay of floor(E*1000*2/3)    *)
(* milliseconds                                                             *)
C26_DelayFloored ==
  [][\A E \in ExpiresIns :
       ScheduleTokenRefresh(E) => ArmedDelay = {Ms((E * 1000 * 2) \div 3)}]_vars

(* C26 amended: scheduleTokenRefresh arms the timer with a delay of exactly *)
(* E*1000/3*2 milliseconds, two thirds of the lifetime and not rounded: a   *)
(* whole number of milliseconds, and then the floor, only when E is a       *)
(* multiple of 3, and otherwise a third or two thirds of a millisecond      *)
(* above the floor                                                          *)
C26_DelayTwoThirds ==
  [][\A E \in ExpiresIns :
       ScheduleTokenRefresh(E)
         => /\ ArmedDelay = {2 * (E * 1000)}
            /\ \A d \in ArmedDelay :
                 /\ 3 * d = 2 * Ms(E * 1000)
                 /\ d % Ms(1) = 0 <=> E % 3 = 0
                 /\ d - Ms((E * 1000 * 2) \div 3) = (E * 1000 * 2) % 3]_vars

(* C26 witness: a timer has just been armed for a lifetime of 1 second,     *)
(* with a delay of 666 milliseconds and two thirds                          *)
C26_FractionalDelay ==
  /\ effects # <<>> /\ effects[Len(effects)] = "setTimeout"
  /\ \E x \in timeouts :
       x.handle = tokenRefreshHandle /\ x.due - now = Ms(666) + 2

(* what getRemainingMillisToTokenExpiry() returns right after the step *)
RemainingAfter ==
  getRemainingMillisToTokenExpiry([World EXCEPT !.tokenExpiresAt = tokenExpiresAt'])

(* C27 as stated: scheduleTokenRefresh records the expiry instant as        *)
(* now + expiresIn*1000, the end of the whole lifetime, so that the         *)
(* remaining time is the whole lifetime right after it                      *)
C27_RecordsFullLifetime ==
  [][\A E \in ExpiresIns :
       ScheduleTokenRefresh(E)
         => /\ tokenExpiresAt' = now + Ms(E * 1000)
            /\ RemainingAfter = Ms(E * 1000)]_vars

(* C27 amended: scheduleTokenRefresh records now + (expiresIn*1000/3)*2,    *)
(* the instant two thirds into the lifetime, a third of the lifetime before *)
(* the token expires: getRemainingMillisToTokenExpiry returns two thirds of *)
(* the lifetime right after it and is positive only before that instant     *)
C27_RecordsTwoThirds ==
  /\ [][\A E \in ExpiresIns :
          ScheduleTokenRefresh(E)
            => /\ 3 * (tokenExpiresAt' - now) = 2 * Ms(E * 1000)
               /\ 3 * (now + Ms(E * 1000) - tokenExpiresAt') = Ms(E * 1000)
               /\ 3 * RemainingAfter = 2 * Ms(E * 1000)]_vars
  /\ [](getRemainingMillisToTokenExpiry(World) > 0
          <=> tokenExpiresAt # NULL /\ now < tokenExpiresAt)

(* C27 witness: a refresh has just been scheduled for a lifetime of 3       *)
(* seconds after the clock had advanced, and the instant recorded is 2      *)
(* seconds ahead                                                            *)
C27_RecordedTwoSecondsAhead ==
  /\ effects # <<>> /\ effects[Len(effects)] = "setTimeout"
  /\ clock > 0
  /\ tokenExpiresAt = now + Ms(2000)
  /\ getRemainingMillisToTokenExpiry(World) = Ms(2000)

(* C28: the expiry instant scheduleTokenRefresh records is the instant at  *)
(* which the timer it arms is due, now + the delay: for expiresIn = 15 s at *)
(* now = 10000 it records 20000 and arms the timer with delay 10000; while  *)
(* the timer is pending it is due exactly when the remaining time is no     *)
(* longer positive                                                          *)
C28_RecordedIsDueInstant ==
  /\ [][\A E \in ExpiresIns :
          ScheduleTokenRefresh(E)
            => /\ ArmedDelay = {tokenExpiresAt' - now}
               /\ (E = 15 /\ now = Ms(10000))
                    => tokenExpiresAt' = Ms(20000) /\ ArmedDelay = {Ms(10000)}]_vars
  /\ [](\A x \in timeouts :
          /\ x.due = tokenExpiresAt
          /\ x.due <= now <=> getRemainingMillisToTokenExpiry(World) <= 0
          /\ x.due = now <=> getRemainingMillisToTokenExpiry(World) = 0)

(* C28 witness: at now = 10000 a refresh has just been scheduled and the    *)
(* instant 20000 is recorded, with the timer due at 20000                   *)
C28_FifteenSecondsAtTen ==
  /\ effects # <<>> /\ effects[Len(effects)] = "setTimeout"
  /\ now = Ms(10000)
  /\ tokenExpiresAt = Ms(20000)
  /\ timeouts = {[handle |-> tokenRefreshHandle, due |-> Ms(20000)]}

(* C29: at most one refresh timer is pending in every reachable state,     *)
(* over scheduling, cancelling, timer firings, renewals and logouts: the    *)
(* pending timer is the one whose handle is stored, a step that arms a      *)
(* timer while a handle is stored clears that handle right before, and a    *)
(* step that drops the stored handle leaves no timer pending                *)
C29_OneTimerPending ==
  /\ [](Cardinality(timeouts) <= 1)
  /\ [](\A x \in timeouts : x.handle = tokenRefreshHandle)
  /\ [][\A i \in DOMAIN effects' :
          effects'[i] = "setTimeout"
            => /\ Cardinality(timeouts') = 1
               /\ Truthy(tokenRefreshHandle)
                    => i > 1 /\ effects'[i - 1] = "clearTimeout"]_vars
  /\ [][(Truthy(tokenRefreshHandle) /\ ~Truthy(tokenRefreshHandle'))
          => timeouts' = {} /\ DidNow("clearTimeout")]_vars

(* C29 witness: a renewal has replaced the refresh timer that was pending,  *)
(* a second after it was armed and a second before it was due               *)
C29_ReplacedPendingTimer ==
  /\ clock = 1
  /\ \E i \in DOMAIN effects :
       i > 1 /\ effects[i] = "setTimeout" /\ effects[i - 1] = "clearTimeout"
  /\ timeouts = {[handle |-> tokenRefreshHandle, due |-> now + Ms(2000)]}

(* C30: getRemainingMillisToTokenExpiry returns 0 when no expiry is        *)
(* recorded and the recorded instant minus now otherwise, zero or negative  *)
(* once the clock has reached that instant; cancelTokenRefresh clears the   *)
(* record, and from then until the next scheduleTokenRefresh no expiry is   *)
(* recorded and the remaining time is 0, never positive, whatever time      *)
(* passes                                                                   *)
C30_RemainingMillis ==
  /\ [](tokenExpiresAt = NULL => getRemainingMillisToTokenExpiry(World) = 0)
  /\ [](tokenExpiresAt # NULL
          => /\ getRemainingMillisToTokenExpiry(World) = tokenExpiresAt - now
             /\ now >= tokenExpiresAt <=> getRemainingMillisToTokenExpiry(World) <= 0)
  /\ [][DidNow("cancelTokenRefresh") => tokenExpiresAt' = NULL /\ RemainingAfter = 0]_vars
  /\ [][(tokenExpiresAt = NULL /\ ~DidNow("setTimeout"))
          => tokenExpiresAt' = NULL /\ RemainingAfter = 0]_vars
  /\ [][(getRemainingMillisToTokenExpiry(World) <= 0 /\ ~DidNow("setTimeout"))
          => getRemainingMillisToTokenExpiry(World)' <= 0]_vars

(* C30 witness: a second after a refresh was scheduled it has just been     *)
(* cancelled, its timer cleared, and the remaining time is 0                *)
C30_CancelledAfterASecond ==
  /\ effects = <<"cancelTokenRefresh", "clearTimeout">>
  /\ clock = 1
  /\ tokenExpiresAt = NULL /\ timeouts = {}
  /\ getRemainingMillisToTokenExpiry(World) = 0

(* C31 as stated: scheduleTokenRefresh never gives the timer facility a    *)
(* negative delay: for expiresIn <= 0 the delay given to setTimeout is 0    *)
C31_DelayClamped ==
  [][\A E \in AnyExpiresIns :
       ScheduleTokenRefresh(E)
         => \A d \in ArmedDelay : d >= 0 /\ (E <= 0 => d = 0)]_vars

(* C31 amended: scheduleTokenRefresh gives setTimeout the delay it computes *)
(* unclamped: (E*1000/3)*2 milliseconds for every E, so 0 for E = 0 and a   *)
(* negative delay for E < 0, with an expiry instant recorded in the past    *)
C31_DelayUnclamped ==
  [][\A E \in AnyExpiresIns :
       ScheduleTokenRefresh(E)
         => /\ ArmedDelay = {2 * (E * 1000)}
            /\ \A d \in ArmedDelay :
                 /\ E < 0 <=> d < 0
                 /\ E = 0 <=> d = 0
            /\ E < 0 => tokenExpiresAt' < now]_vars

(* C31 witness: a timer has just been armed for expiresIn = -1 with a delay *)
(* of 666 milliseconds and two thirds below zero                            *)
C31_NegativeDelay ==
  /\ effects # <<>> /\ effects[Len(effects)] = "setTimeout"
  /\ \E x \in timeouts :
       x.handle = tokenRefreshHandle /\ x.due - now = 0 - (Ms(666) + 2)

(* the checkSession attempts of invocation k that have failed *)
FailedAttempts(k) ==
  k.nCheck - (IF k.pc = "checkSession" THEN 1 ELSE 0)
           - (IF k.pc = "renewProfile" \/ (k.pc = "resolved" /\ k.via = "renew")
              THEN 1 ELSE 0)

(* the checkSession call of invocation c has failed in this step *)
FailedNow(c) ==
  /\ calls[c].pc = "checkSession"
  /\ \/ calls'[c].pc \in {"retryWait", "authorize"}
     \/ calls'[c].pc = "idle" /\ settled' # <<>> /\ settled'[1].pc = "rejected"

(* C32: every failed checkSession attempt, retried or not, is reported to   *)
(* the logger with its attempt number and its error, in the step in which   *)
(* it fails and before anything else that step does (the start of the retry *)
(* wait, the cleanup, the hosted login, the rejection): an invocation has   *)
(* as many such log entries as failed attempts, the last one carrying the   *)
(* number and the error of its last failed attempt                          *)
C32_EveryFailureLogged ==
  /\ [](\A k \in Observed :
          /\ k.nLogged = FailedAttempts(k)
          /\ k.nLogged > 0
               => k.loggedRetry = k.nLogged - 1 /\ k.loggedErr = k.lastErr
          /\ k.pc = "retryWait" => k.loggedRetry = k.retries)
  /\ [][\A c \in CallIds :
          FailedNow(c)
            => /\ effects' # <<>> /\ effects'[1] = "log:IdTokenUpdateFailed"
               /\ Cardinality({i \in DOMAIN effects' :
                                 effects'[i] = "log:IdTokenUpdateFailed"}) = 1]_vars
  /\ [][DidNow("log:IdTokenUpdateFailed") => \E c \in CallIds : FailedNow(c)]_vars

(* C32 witness: an invocation has been rejected after five failed attempts, *)
(* each of them logged, the last as attempt number 4                        *)
C32_FiveFailuresLogged ==
  \E k \in SettledNow :
    /\ k.pc = "rejected" /\ k.nCheck = 5
    /\ k.nLogged = 5 /\ k.loggedRetry = 4
    /\ effects # <<>> /\ effects[1] = "log:IdTokenUpdateFailed"

(* C33: an invocation resolved by a successful silent renewal attempts the *)
(* redirect resumption: if a redirect was stored before, it is resolved     *)
(* with that redirectUri and the stored redirect is consumed                *)
C33_RenewalResumesRedirect ==
  [][\A i \in DOMAIN settled' :
       (/\ settled'[i].pc = "resolved" /\ settled'[i].via = "renew"
        /\ redirectStore # "undefined")
         => settled'[i].result = redirectStore /\ redirectStore' = "undefined"]_vars

(* C34: an invocation whose parseHash returned both tokens is resolved     *)
(* with redirectUri, the stored redirect consumed, having made no           *)
(* checkSession and no authorize call and left the retained sequence alone, *)
(* with the credential of the hash stored, the tokenRefreshed hook invoked  *)
(* and the refresh scheduled                                                *)
C34_HashLogin ==
  \A k \in SettledNow :
    k.via = "hash"
      => /\ k.pc = "resolved" /\ k.result # "undefined"
         /\ redirectStore = "undefined"
         /\ k.nCheck = 0 /\ k.nAuthorize = 0 /\ ~k.behind
         /\ authResult.src = "parseHash"
         /\ "tokenRefreshed" \in config.hooks => Places("hook:tokenRefreshed") # {}
         /\ Places("setTimeout") # {}
         /\ \E x \in timeouts : x.handle = tokenRefreshHandle

(* the invocations the step has resolved with a redirectUri that is set *)
HandedRedirect ==
  {i \in DOMAIN settled' : settled'[i].result \notin {"undefined", "null"}}

HashRejectedNow(c) ==
  /\ calls[c].pc = "parseHash" /\ calls'[c].pc = "idle"
  /\ settled' # <<>> /\ settled'[1].pc = "rejected"

(* C36: a parseHash failure with invalid_token is logged and not thrown:    *)
(* the invocation goes on to the serialized renewal, waiting if a sequence  *)
(* is in flight and calling checkSession at once if none is; any other      *)
(* parseHash error is logged and rejects the invocation in the same step,   *)
(* before any checkSession or authorize call, without removeLogin, leaving  *)
(* credential, timer and retained sequence as they were                     *)
C36_InvalidTokenRenews ==
  /\ [][DidNow("log:invalid_token")
          => /\ effects' = <<"log:invalid_token">> /\ settled' = <<>>
             /\ \E c \in CallIds :
                  /\ calls[c].pc = "parseHash"
                  /\ calls'[c].pc \in {"queued", "checkSession"}
                  /\ calls'[c].err = NoError
                  /\ calls'[c].pc = "queued"
                       <=> \E d \in CallIds \ {c} :
                             InSequence(calls[d]) \/ calls[d].pc = "queued"
                  /\ calls'[c].nCheck = IF calls'[c].pc = "queued" THEN 0 ELSE 1
                  /\ renewAuthSequencePromise' = PendingOn(c)]_vars
  /\ [][\A c \in CallIds :
          HashRejectedNow(c)
            => /\ effects' \in {<<"log:access_denied">>, <<"log:UnverifiedEmail">>}
               /\ effects'[1] = "log:" \o settled'[1].err.errorCode
               /\ settled'[1].nCheck = 0 /\ settled'[1].nAuthorize = 0
               /\ settled'[1].nRemoveLogin = 0
               /\ authResult' = authResult /\ timeouts' = timeouts
               /\ tokenExpiresAt' = tokenExpiresAt /\ sessionId' = sessionId
               /\ renewAuthSequencePromise' = renewAuthSequencePromise]_vars
  /\ [](\A k \in SettledNow :
          k.pc = "rejected" => k.err.errorCode # "invalid_token")

(* C36 witness: the parseHash of an invocation has just failed with         *)
(* invalid_token next to a valid credential, and the invocation has made    *)
(* its first checkSession call                                              *)
C36_RenewingAfterInvalidToken ==
  /\ effects = <<"log:invalid_token">>
  /\ \E c \in CallIds :
       calls[c].pc = "checkSession" /\ calls[c].nCheck = 1 /\ ~calls[c].behind
  /\ authResult # NoAuth

C38_RecordedMeansArmed ==
  /\ []((Truthy(tokenExpiresAt) /\ getRemainingMillisToTokenExpiry(World) > 0)
          => timeouts = {[handle |-> tokenRefreshHandle, due |-> tokenExpiresAt]})
  /\ [][(tokenExpiresAt' # tokenExpiresAt /\ Truthy(tokenExpiresAt'))
          => /\ DidNow("setTimeout")
             /\ timeouts' = {[handle |-> tokenRefreshHandle', due |-> tokenExpiresAt']}]_vars
  /\ [][(Truthy(tokenExpiresAt) /\ ~Truthy(tokenExpiresAt'))
          => DidNow("cancelTokenRefresh") /\ timeouts' = {}]_vars
  /\ [][(timeouts # {} /\ timeouts' = {})
          => \/ ~Truthy(tokenExpiresAt')
             \/ getRemainingMillisToTokenExpiry(World)' <= 0]_vars

(* C38 witness: a second after a renewal recorded an expiry two seconds     *)
(* ahead, one second remains and the armed timer is still pending           *)
C38_PendingWithASecondLeft ==
  /\ Truthy(tokenExpiresAt)
  /\ getRemainingMillisToTokenExpiry(World) = Ms(1000)
  /\ timeouts = {[handle |-> tokenRefreshHandle, due |-> tokenExpiresAt]}
  /\ clock >= 1

(* C39: a pending refresh timer always has a stored credential behind it:  *)
(* in every state with a timer pending authResult is not null, and every    *)
(* step that ends with no credential stored (removeLogin, logout, the       *)
(* cleanup of a failure) ends with no timer pending, no expiry recorded and *)
(* no session                                                               *)
C39_NoTimerLoggedOut ==
  /\ [](timeouts # {} => authResult # NoAuth)
  /\ [](timeouts # {} => Truthy(authResult.accessToken) /\ Truthy(authResult.expiresIn))
  /\ [][DidNow("clear")
          => (authResult' = NoAuth
                => /\ timeouts' = {}
                   /\ ~Truthy(tokenExpiresAt')
                   /\ ~authorizationSessionExists(World)')]_vars
  /\ [][(authResult # NoAuth /\ authResult' = NoAuth)
          => DidNow("cancelTokenRefresh") /\ timeouts' = {}]_vars

(* C39 witness: removeLogin or logout has just cancelled a pending refresh  *)
(* timer and cleared the credential, and nothing is pending                 *)
C39_ClearedWithTimerCancelled ==
  /\ \E i \in DOMAIN effects : effects[i] = "clearTimeout"
  /\ \E i \in DOMAIN effects : effects[i] = "clear"
  /\ authResult = NoAuth
  /\ timeouts = {}
  /\ clock >= 1

====
